---- MODULE Spec2Model ----
(***************************************************************************)
(* A model of the barcode symbol-encoding engine (crate `scanning`):       *)
(* per-symbology validating constructors, the Code128 tokenizer and the    *)
(* EAN encoders.                                                           *)
(*                                                                         *)
(* A Rust `char` is modelled as a TLA+ string: a printable ASCII character *)
(* is the one-character string itself ("A", "7", "-"); every other         *)
(* character is named by its code point ("u00C0" is U+00C0, the marker of  *)
(* character-set A; "u0060" is the backtick; "u0022" the double quote;     *)
(* "u005C" the backslash).  A Rust `&str` is a sequence of such chars.     *)
(* Multi-character table keys of Code128 ("START-u00C0", "42") are built   *)
(* with \o exactly where the code builds them with format!.                *)
(***************************************************************************)
EXTENDS Integers, Sequences, FiniteSets, TLC

VARIABLES
  data,      \* the text handed to the constructor (sequence of chars)
  call,      \* the constructor invoked: [fn |-> ...] (+ character_set for Code128)
  pc,        \* "input" | "parse" (inside Code128::parse's loop) | "done" | "encoded"
  result,    \* the constructor's outcome: Ok(value) | Err(error) | Panicked
  chars,     \* Code128::parse: the Vec<char> being tokenized
  pos,       \* Code128::parse: index of the next char of `chars`
  units,     \* Code128::parse: local `units`
  char_set,  \* Code128::parse: local `char_set`
  carry,     \* Code128::parse: local `carry` (None or Some(digit))
  encoded    \* the bits returned by encode()

vars == <<data, call, pc, result, chars, pos, units, char_set, carry, encoded>>

----------------------------------------------------------------------------
(* Bounds of the explored inputs.                                          *)

\* fill lengths 0..MaxShort are explored around the fixed-length symbologies
MaxShort == 14
\* ... and total fill lengths up to MaxOver past the end of valid_len()
MaxOver == 2
\* number of freely chosen trailing data digits of the EAN inputs
NFree == 2
\* longest Code128 input text
MaxLen128 == 3
\* longest free text handed to the encoders
MaxEncLen == 3
\* longest patterned text handed to the encoders, short of those around the
\* end of valid_len()
MaxFill == 23
\* longest run of digits in the Code128 texts handed to the encoder
MaxDigits128 == 6

----------------------------------------------------------------------------
(* Option / Result / panic.                                                *)

None == <<>>
Some(x) == <<x>>

Ok(v) == [kind |-> "Ok", value |-> v]
Err(e) == [kind |-> "Err", err |-> e]
\* an `expect`/`panic!`/index out of bounds that unwinds out of the call
Panicked == [kind |-> "Panic"]
NoResult == [kind |-> "None"]

IsOk(r) == r.kind = "Ok"

----------------------------------------------------------------------------
(* Characters.                                                             *)

DIGITS == <<"0", "1", "2", "3", "4", "5", "6", "7", "8", "9">>

Range(s) == {s[i] : i \in 1..Len(s)}

\* char::to_digit(10): Some(d) for an ASCII decimal digit, None otherwise
to_digit(c) ==
  IF \E i \in 1..10 : DIGITS[i] = c
  THEN Some((CHOOSE i \in 1..10 : DIGITS[i] = c) - 1)
  ELSE None

is_ascii_digit(c) == to_digit(c) # None

\* chars of the model that need two / three bytes in UTF-8
TwoByteChars ==
  {"u00C0", "u0181", "u0106", "u0179", "u017A", "u017B", "u017C", "u017D",
   "u00F7", "u00E9"}
ThreeByteChars == {"u263A"}

\* char::len_utf8
len_utf8(c) ==
  IF c \in ThreeByteChars THEN 3 ELSE IF c \in TwoByteChars THEN 2 ELSE 1

\* str::len(): the length of the text in bytes (the sum of its chars' UTF-8
\* widths), not its number of chars
str_len(s) ==
  Len(s) + Cardinality({i \in 1..Len(s) : len_utf8(s[i]) >= 2})
         + Cardinality({i \in 1..Len(s) : len_utf8(s[i]) >= 3})

\* u32::try_from(n).is_ok() for a usize n: n < 2^32
FitsU32(n) == n \div 65536 < 65536

----------------------------------------------------------------------------
(* Symbol tables (the character column of each CHARS constant).            *)

Code93_CHARS ==
  <<
    "0", "1", "2", "3", "4", "5", "6", "7",
    "8", "9", "A", "B", "C", "D", "E", "F",
    "G", "H", "I", "J", "K", "L", "M", "N",
    "O", "P", "Q", "R", "S", "T", "U", "V",
    "W", "X", "Y", "Z", "-", ".", " ", "$",
    "/", "+", "%", "(", ")", "[", "]"
  >>

Code39_CHARS ==
  <<
    "0", "1", "2", "3", "4", "5", "6", "7",
    "8", "9", "A", "B", "C", "D", "E", "F",
    "G", "H", "I", "J", "K", "L", "M", "N",
    "O", "P", "Q", "R", "S", "T", "U", "V",
    "W", "X", "Y", "Z", "-", ".", " ", "$",
    "/", "+", "%"
  >>

Code11_CHARS ==
  <<
    "0", "1", "2", "3", "4", "5", "6", "7",
    "8", "9", "-"
  >>

Code128_CHARS ==
  <<
    <<" "," ","00">>, <<"!","!","01">>, <<"u0022","u0022","02">>, <<"#","#","03">>,
    <<"$","$","04">>, <<"%","%","05">>, <<"&","&","06">>, <<"'","'","07">>,
    <<"(","(","08">>, <<")",")","09">>, <<"*","*","10">>, <<"+","+","11">>,
    <<",",",","12">>, <<"-","-","13">>, <<".",".","14">>, <<"/","/","15">>,
    <<"0","0","16">>, <<"1","1","17">>, <<"2","2","18">>, <<"3","3","19">>,
    <<"4","4","20">>, <<"5","5","21">>, <<"6","6","22">>, <<"7","7","23">>,
    <<"8","8","24">>, <<"9","9","25">>, <<":",":","26">>, <<";",";","27">>,
    <<"<","<","28">>, <<"=","=","29">>, <<">",">","30">>, <<"?","?","31">>,
    <<"@","@","32">>, <<"A","A","33">>, <<"B","B","34">>, <<"C","C","35">>,
    <<"D","D","36">>, <<"E","E","37">>, <<"F","F","38">>, <<"G","G","39">>,
    <<"H","H","40">>, <<"I","I","41">>, <<"J","J","42">>, <<"K","K","43">>,
    <<"L","L","44">>, <<"M","M","45">>, <<"N","N","46">>, <<"O","O","47">>,
    <<"P","P","48">>, <<"Q","Q","49">>, <<"R","R","50">>, <<"S","S","51">>,
    <<"T","T","52">>, <<"U","U","53">>, <<"V","V","54">>, <<"W","W","55">>,
    <<"X","X","56">>, <<"Y","Y","57">>, <<"Z","Z","58">>, <<"[","[","59">>,
    <<"u005C","u005C","60">>, <<"]","]","61">>, <<"^","^","62">>, <<"_","_","63">>,
    <<"u0000","u0060","64">>, <<"u0001","a","65">>, <<"u0002","b","66">>, <<"u0003","c","67">>,
    <<"u0004","d","68">>, <<"u0005","e","69">>, <<"u0006","f","70">>, <<"u0007","g","71">>,
    <<"u0008","h","72">>, <<"u0009","i","73">>, <<"u000A","j","74">>, <<"u000B","k","75">>,
    <<"u000C","l","76">>, <<"u000D","m","77">>, <<"u000E","n","78">>, <<"u000F","o","79">>,
    <<"u0010","p","80">>, <<"u0011","q","81">>, <<"u0012","r","82">>, <<"u0013","s","83">>,
    <<"u0014","t","84">>, <<"u0015","u","85">>, <<"u0016","v","86">>, <<"u0017","w","87">>,
    <<"u0018","x","88">>, <<"u0019","y","89">>, <<"u001A","z","90">>, <<"u001B","{","91">>,
    <<"u001C","|","92">>, <<"u001D","}","93">>, <<"u001E","~","94">>, <<"u001F","u00F7","95">>,
    <<"u017B","u017B","96">>, <<"u017A","u017A","97">>, <<"u017D","u017D","98">>, <<"u0106","u0106","99">>,
    <<"u0181","u017C","u0181">>, <<"u017C","u00C0","u00C0">>, <<"u0179","u0179","u0179">>, <<"START-u00C0","START-u00C0","START-u00C0">>,
    <<"START-u0181","START-u0181","START-u0181">>, <<"START-u0106","START-u0106","START-u0106">>
  >>

----------------------------------------------------------------------------
(* The shared validator, trait Parse (sym.rs).                             *)

\* a core::ops::Range<u32> value `start..end`
RangeU32(start, end) == [start |-> start, end |-> end]

\* faulty variant: characters are checked before the length
parse_chars_first(valid_chars, valid_len, d) ==
  IF \E i \in 1..Len(d) : d[i] \notin Range(valid_chars) THEN Err("Character")
  ELSE IF ~FitsU32(str_len(d)) THEN Err("Length")
  ELSE IF str_len(d) < valid_len.start \/ str_len(d) > valid_len.end
       THEN Err("Length")
  ELSE Ok(d)

\* faulty variant: only the first character is looked at
parse_first_char(valid_chars, valid_len, d) ==
  IF ~FitsU32(str_len(d)) THEN Err("Length")
  ELSE IF str_len(d) < valid_len.start \/ str_len(d) > valid_len.end
       THEN Err("Length")
  ELSE IF Len(d) > 0 /\ d[1] \notin Range(valid_chars) THEN Err("Character")
  ELSE Ok(d)

\* Parse::parse
parse(valid_chars, valid_len, d) ==
  LET data_len == str_len(d) IN
  IF ~FitsU32(data_len) THEN Err("Length")           \* u32::try_from fails
  ELSE IF data_len < valid_len.start \/ data_len > valid_len.end
       THEN Err("Length")
  ELSE IF \E i \in 1..Len(d) : d[i] \notin Range(valid_chars)
       THEN Err("Character")
  ELSE Ok(d)

----------------------------------------------------------------------------
(* impl Parse for each symbology: valid_len() and valid_chars().           *)

Code93_valid_len == RangeU32(1, 256)
Code93_valid_chars == Code93_CHARS

Codabar_valid_len == RangeU32(1, 256)
Codabar_valid_chars ==
  <<"0", "1", "2", "3", "4", "5", "6", "7", "8", "9", "-", "/", ".", ":",
    "+", "$", "A", "B", "C", "D">>

Code11_valid_len == RangeU32(1, 256)
Code11_valid_chars == Code11_CHARS

Code39_valid_len == RangeU32(1, 256)
Code39_valid_chars == Code39_CHARS

EAN13_valid_len == RangeU32(12, 13)
EAN13_valid_chars == DIGITS

EAN8_valid_len == RangeU32(7, 8)
EAN8_valid_chars == DIGITS

EANSUPP_valid_len == RangeU32(2, 5)
EANSUPP_valid_chars == DIGITS

TF_valid_len == RangeU32(1, 256)
TF_valid_chars == DIGITS

\* the implementors of trait Parse
SYMBOLOGIES == {"Code93", "Codabar", "Code11", "Code39", "EAN13", "EAN8", "EANSUPP", "TF"}

\* <S as Parse>::valid_len()
valid_len(sy) ==
  CASE sy = "Code93" -> Code93_valid_len
    [] sy = "Codabar" -> Codabar_valid_len
    [] sy = "Code11" -> Code11_valid_len
    [] sy = "Code39" -> Code39_valid_len
    [] sy = "EAN13" -> EAN13_valid_len
    [] sy = "EAN8" -> EAN8_valid_len
    [] sy = "EANSUPP" -> EANSUPP_valid_len
    [] sy = "TF" -> TF_valid_len

\* <S as Parse>::valid_chars()
valid_chars(sy) ==
  CASE sy = "Code93" -> Code93_valid_chars
    [] sy = "Codabar" -> Codabar_valid_chars
    [] sy = "Code11" -> Code11_valid_chars
    [] sy = "Code39" -> Code39_valid_chars
    [] sy = "EAN13" -> EAN13_valid_chars
    [] sy = "EAN8" -> EAN8_valid_chars
    [] sy = "EANSUPP" -> EANSUPP_valid_chars
    [] sy = "TF" -> TF_valid_chars

----------------------------------------------------------------------------
(* Checksums.                                                              *)

\* the sum of the s[i] with i in idx (halving, to keep the evaluation shallow)
SeqSum(s, idx) ==
  LET RECURSIVE Go(_, _)
      Go(lo, hi) ==
        IF lo > hi THEN 0
        ELSE IF lo = hi THEN (IF lo \in idx THEN s[lo] ELSE 0)
        ELSE Go(lo, (lo + hi) \div 2) + Go(((lo + hi) \div 2) + 1, hi)
  IN Go(1, Len(s))

\* helpers::modulo_10_checksum(data, even_start): the digits at odd 0-based
\* indices and those at even 0-based indices are summed apart; one of the two
\* sums is weighted 3 (the odd-index one when even_start), and the check
\* digit is what brings the total to a multiple of 10.
modulo_10_checksum(digits, even_start) ==
  LET odds  == SeqSum(digits, {i \in 1..Len(digits) : (i - 1) % 2 = 1})
      evens == SeqSum(digits, {i \in 1..Len(digits) : (i - 1) % 2 = 0})
      total == IF even_start THEN odds * 3 + evens ELSE odds + evens * 3
      n     == 10 - (total % 10)
  IN IF n = 10 THEN 0 ELSE n

\* faulty variant: EAN13 weights the even 0-based indices
EAN13_checksum_digit_odd_start(d) == modulo_10_checksum(d, FALSE)

\* EAN13::checksum_digit
EAN13_checksum_digit(d) == modulo_10_checksum(d, TRUE)

\* EAN8::checksum_digit
EAN8_checksum_digit(d) == modulo_10_checksum(d, FALSE)

----------------------------------------------------------------------------
(* Constructors.                                                           *)

\* d.chars().map(|c| c.to_digit(10).expect(..) as u8).collect()
AllDigits(d) == \A i \in 1..Len(d) : to_digit(d[i]) # None
Digits(d) == [i \in 1..Len(d) |-> to_digit(d[i])[1]]

\* Code93::new
Code93_new(d) ==
  LET p == parse(Code93_valid_chars, Code93_valid_len, d) IN
  IF IsOk(p) THEN Ok([variant |-> "Code93", data |-> p.value])
  ELSE Panicked                       \* .expect("Failed to parse input data")

\* codabar::Unit::from_char
Codabar_from_char(c) ==
  IF c \in Range(Codabar_valid_chars) THEN Some(c) ELSE None

\* Codabar::new
Codabar_new(d) ==
  LET p == parse(Codabar_valid_chars, Codabar_valid_len, d) IN
  IF ~IsOk(p) THEN p
  ELSE IF \E i \in 1..Len(p.value) : Codabar_from_char(p.value[i]) = None
       THEN Err("Character")
  ELSE Ok([variant |-> "Codabar",
           data |-> [i \in 1..Len(p.value) |-> Codabar_from_char(p.value[i])[1]]])

\* Code11::new
Code11_new(d) ==
  LET p == parse(Code11_valid_chars, Code11_valid_len, d) IN
  IF IsOk(p) THEN Ok([variant |-> "Code11", data |-> p.value]) ELSE p

\* Code39::init
Code39_init(d, checksum) ==
  LET p == parse(Code39_valid_chars, Code39_valid_len, d) IN
  IF IsOk(p) THEN Ok([variant |-> "Code39", data |-> p.value, checksum |-> checksum])
  ELSE p

\* faulty variant: the checksum is always on
Code39_new_checksummed(d) == Code39_init(d, TRUE)

\* Code39::new
Code39_new(d) == Code39_init(d, FALSE)

\* Code39::with_checksum
Code39_with_checksum(d) == Code39_init(d, TRUE)

\* faulty variant: the supplied check digit is never compared
EAN13_new_unchecked(d) ==
  LET p == parse(EAN13_valid_chars, EAN13_valid_len, d) IN
  IF ~IsOk(p) THEN p
  ELSE Ok([variant |-> "EAN13", data |-> SubSeq(Digits(p.value), 1, 12)])

\* EAN13::new
EAN13_new(d) ==
  LET p == parse(EAN13_valid_chars, EAN13_valid_len, d) IN
  IF ~IsOk(p) THEN p
  ELSE IF ~AllDigits(p.value) THEN Panicked       \* .expect("Unknown character")
  ELSE LET digits == Digits(p.value) IN
       IF Len(digits) < 12 THEN Panicked           \* digits[0..12]
       ELSE LET ean13 == SubSeq(digits, 1, 12) IN
            IF Len(digits) = 13 /\ EAN13_checksum_digit(ean13) # digits[13]
            THEN Err("Checksum")
            ELSE Ok([variant |-> "EAN13", data |-> ean13])

\* EAN8::new
EAN8_new(d) ==
  LET p == parse(EAN8_valid_chars, EAN8_valid_len, d) IN
  IF ~IsOk(p) THEN p
  ELSE IF ~AllDigits(p.value) THEN Panicked
  ELSE LET digits == Digits(p.value) IN
       IF Len(digits) < 7 THEN Panicked            \* digits[0..7]
       ELSE LET ean8 == SubSeq(digits, 1, 7) IN
            IF Len(digits) = 8 /\ EAN8_checksum_digit(ean8) # digits[8]
            THEN Err("Checksum")
            ELSE Ok([variant |-> "EAN8", data |-> ean8])

\* EANSUPP::new
EANSUPP_new(d) ==
  LET p == parse(EANSUPP_valid_chars, EANSUPP_valid_len, d) IN
  IF ~IsOk(p) THEN p
  ELSE IF ~AllDigits(p.value) THEN Panicked
  ELSE LET digits == Digits(p.value) IN
       IF Len(digits) = 2 THEN Ok([variant |-> "EAN2", data |-> digits])
       ELSE IF Len(digits) = 5 THEN Ok([variant |-> "EAN5", data |-> digits])
       ELSE Err("Length")

\* faulty variant: no check digit is appended to an odd number of digits
TF_interleaved_unpadded(d) ==
  LET p == parse(TF_valid_chars, TF_valid_len, d) IN
  IF ~IsOk(p) THEN p
  ELSE IF ~AllDigits(p.value) THEN Panicked
  ELSE Ok([variant |-> "Interleaved", data |-> Digits(p.value)])

\* faulty variant: a check digit is appended whatever the number of digits
TF_interleaved_always_padded(d) ==
  LET p == parse(TF_valid_chars, TF_valid_len, d) IN
  IF ~IsOk(p) THEN p
  ELSE IF ~AllDigits(p.value) THEN Panicked
  ELSE Ok([variant |-> "Interleaved",
           data |-> Append(Digits(p.value),
                           modulo_10_checksum(Digits(p.value), FALSE))])

\* TF::interleaved
TF_interleaved(d) ==
  LET p == parse(TF_valid_chars, TF_valid_len, d) IN
  IF ~IsOk(p) THEN p
  ELSE IF ~AllDigits(p.value) THEN Panicked
  ELSE LET digits == Digits(p.value)
           checksum_required == Len(digits) % 2 = 1
       IN Ok([variant |-> "Interleaved",
              data |-> IF checksum_required
                       THEN Append(digits, modulo_10_checksum(digits, FALSE))
                       ELSE digits])

\* TF::standard
TF_standard(d) ==
  LET p == parse(TF_valid_chars, TF_valid_len, d) IN
  IF ~IsOk(p) THEN p
  ELSE IF ~AllDigits(p.value) THEN Panicked
  ELSE Ok([variant |-> "Standard", data |-> Digits(p.value)])

----------------------------------------------------------------------------
(* Code128 (code128.rs).                                                   *)

\* the characters that name a character-set: U+00C0, U+0181, U+0106
Code128_MARKERS == {"u00C0", "u0181", "u0106"}

\* CharacterSet::from_char
CharacterSet_from_char(c) ==
  IF c = "u00C0" THEN Ok("A")
  ELSE IF c = "u0181" THEN Ok("B")
  ELSE IF c = "u0106" THEN Ok("C")
  ELSE Err("Character")

\* CharacterSet::unit
CharacterSet_unit(cs, n) ==
  IF cs = "None" THEN Err("Character") ELSE Ok([kind |-> cs, index |-> n])

\* CharacterSet::index
CharacterSet_index(cs) ==
  IF cs = "A" THEN Ok(0)
  ELSE IF cs = "B" THEN Ok(1)
  ELSE IF cs = "C" THEN Ok(2)
  ELSE Err("Character")

\* CharacterSet::lookup: the first row of CHARS whose column of this
\* character-set is the string s (unit indices are 0-based, as in the code)
CharacterSet_lookup(cs, s) ==
  LET p == CharacterSet_index(cs) IN
  IF ~IsOk(p) THEN p
  ELSE LET hits == {i \in 1..Len(Code128_CHARS) : Code128_CHARS[i][p.value + 1] = s} IN
       IF hits = {} THEN Err("Character")
       ELSE CharacterSet_unit(cs, (CHOOSE i \in hits : \A j \in hits : i <= j) - 1)

\* faulty variant: without a character-set the text is taken as it is
\* (it then has to begin with a marker itself)
Code128_start_longhand(d, character_set) ==
  IF str_len(d) < 2 THEN Err("Length")
  ELSE IF character_set = "A" THEN Ok(<<"u00C0">> \o d)
  ELSE IF character_set = "B" THEN Ok(<<"u0181">> \o d)
  ELSE IF character_set = "C" THEN Ok(<<"u0106">> \o d)
  ELSE Ok(d)

\* Code128::new up to the call of Self::parse: the length check, the
\* starting character, and the text with that character prepended
Code128_start(d, character_set) ==
  IF str_len(d) < 2 THEN Err("Length")
  ELSE IF character_set = "A" THEN Ok(<<"u00C0">> \o d)
  ELSE IF character_set = "B" THEN Ok(<<"u0181">> \o d)
  ELSE IF character_set = "C" THEN Ok(<<"u0106">> \o d)
  ELSE Err("Character")

\* the state of Code128::parse's loop
ParseState(u, cs, c) == [units |-> u, char_set |-> cs, carry |-> c]

\* faulty variant: the pending digit is not looked at when a marker is read
Code128_orphan_ignored(st) == FALSE

\* the guard `char_set == CharacterSet::C && carry.is_some()` of the marker arm
Code128_orphan(st) == st.char_set = "C" /\ st.carry # None

\* faulty variant: digits are never paired
Code128_packs_never(st, ch) == FALSE

\* the guard `d.is_ascii_digit() && char_set == CharacterSet::C` of the arm
\* that pairs digits
Code128_packs(st, ch) == is_ascii_digit(ch) /\ st.char_set = "C"

\* faulty variant: the marker is looked up in the character-set it names
Code128_switch_unit_of_new_set(st, ch) ==
  LET cs == CharacterSet_from_char(ch) IN
  IF ~IsOk(cs) THEN cs ELSE CharacterSet_lookup(cs.value, ch)

\* `char_set.lookup(&ch.to_string())` of the marker arm: the marker is looked
\* up in the character-set that is active when it is read
Code128_switch_unit(st, ch) == CharacterSet_lookup(st.char_set, ch)

\* faulty variant: the pending digit is put second
Code128_pair_reversed(n, d) == d \o n

\* format!("{n}{d}"): the pending digit, then the digit read
Code128_pair(n, d) == n \o d

\* one iteration of the loop of Code128::parse: the match on ch
Code128_parse_char(st, ch) ==
  IF ch \in Code128_MARKERS /\ st.units = <<>>
  THEN LET cs == CharacterSet_from_char(ch) IN
       IF ~IsOk(cs) THEN cs
       ELSE LET u == CharacterSet_lookup(cs.value, "START-" \o ch) IN
            IF ~IsOk(u) THEN u
            ELSE Ok(ParseState(Append(st.units, u.value), cs.value, st.carry))
  ELSE IF ch \in Code128_MARKERS
  THEN IF Code128_orphan(st) THEN Err("Character")
       ELSE LET u == Code128_switch_unit(st, ch) IN
            IF ~IsOk(u) THEN u
            ELSE LET cs == CharacterSet_from_char(ch) IN
                 IF ~IsOk(cs) THEN cs
                 ELSE Ok(ParseState(Append(st.units, u.value), cs.value, st.carry))
  ELSE IF Code128_packs(st, ch)
  THEN IF st.carry = None THEN Ok(ParseState(st.units, st.char_set, Some(ch)))
       ELSE LET u == CharacterSet_lookup(st.char_set, Code128_pair(st.carry[1], ch)) IN
            IF ~IsOk(u) THEN u
            ELSE Ok(ParseState(Append(st.units, u.value), st.char_set, None))
  ELSE LET u == CharacterSet_lookup(st.char_set, ch) IN
       IF ~IsOk(u) THEN u
       ELSE Ok(ParseState(Append(st.units, u.value), st.char_set, st.carry))

\* the match on carry that ends Code128::parse
Code128_parse_end(st) ==
  IF st.carry # None THEN Err("Character") ELSE Ok(st.units)

\* Code128::parse as a whole: the loop over the chars, then the final match
Code128_parse_from(st, cs, i) ==
  LET RECURSIVE Go(_, _, _)
      \* the chars lo..hi read from the loop state s (halving, to keep the
      \* evaluation shallow); an Err ends the loop
      Go(s, lo, hi) ==
        IF ~IsOk(s) \/ lo > hi THEN s
        ELSE IF lo = hi THEN Code128_parse_char(s.value, cs[lo])
        ELSE Go(Go(s, lo, (lo + hi) \div 2), ((lo + hi) \div 2) + 1, hi)
      r == Go(Ok(st), i, Len(cs))
  IN IF IsOk(r) THEN Code128_parse_end(r.value) ELSE r

Code128_parse(cs) == Code128_parse_from(ParseState(<<>>, "None", None), cs, 1)

----------------------------------------------------------------------------
(* EAN-13 / EAN-8 encoding (ean13.rs, ean8.rs).                            *)

\* ENCODINGS[side][digit]: left odd parity, left even parity, right
ENCODINGS ==
  << << <<0,0,0,1,1,0,1>>, <<0,0,1,1,0,0,1>>, <<0,0,1,0,0,1,1>>, <<0,1,1,1,1,0,1>>,
        <<0,1,0,0,0,1,1>>, <<0,1,1,0,0,0,1>>, <<0,1,0,1,1,1,1>>, <<0,1,1,1,0,1,1>>,
        <<0,1,1,0,1,1,1>>, <<0,0,0,1,0,1,1>> >>,
     << <<0,1,0,0,1,1,1>>, <<0,1,1,0,0,1,1>>, <<0,0,1,1,0,1,1>>, <<0,1,0,0,0,0,1>>,
        <<0,0,1,1,1,0,1>>, <<0,1,1,1,0,0,1>>, <<0,0,0,0,1,0,1>>, <<0,0,1,0,0,0,1>>,
        <<0,0,0,1,0,0,1>>, <<0,0,1,0,1,1,1>> >>,
     << <<1,1,1,0,0,1,0>>, <<1,1,0,0,1,1,0>>, <<1,1,0,1,1,0,0>>, <<1,0,0,0,0,1,0>>,
        <<1,0,1,1,1,0,0>>, <<1,0,0,1,1,1,0>>, <<1,0,1,0,0,0,0>>, <<1,0,0,0,1,0,0>>,
        <<1,0,0,1,0,0,0>>, <<1,1,1,0,1,0,0>> >> >>

PARITY ==
  << <<0,0,0,0,0>>, <<0,1,0,1,1>>, <<0,1,1,0,1>>, <<0,1,1,1,0>>, <<1,0,0,1,1>>,
     <<1,1,0,0,1>>, <<1,1,1,0,0>>, <<1,0,1,0,1>>, <<1,0,1,1,0>>, <<1,1,0,1,0>> >>

LEFT_GUARD == <<1, 0, 1>>
MIDDLE_GUARD == <<0, 1, 0, 1, 0>>
RIGHT_GUARD == <<1, 0, 1>>

\* helpers::join_slices / helpers::join_iters: the concatenation, in order
join_slices(ss) ==
  LET RECURSIVE Go(_, _)
      Go(lo, hi) ==
        IF lo > hi THEN <<>>
        ELSE IF lo = hi THEN ss[lo]
        ELSE Go(lo, (lo + hi) \div 2) \o Go(((lo + hi) \div 2) + 1, hi)
  IN Go(1, Len(ss))

\* EAN13::char_encoding / EAN8::char_encoding (0-based side and digit)
EAN_char_encoding(side, d) == ENCODINGS[side + 1][d + 1]

\* faulty variant: the check digit's symbol is left out
EAN13_encode_unchecked(d) ==
  LET number_system_encoding == EAN_char_encoding(0, d[2])
      left_digits    == SubSeq(d, 3, 7)
      right_digits   == SubSeq(d, 8, Len(d))
      parity_mapping == PARITY[d[1] + 1]
      left_payload   ==
        join_slices([i \in 1..5 |-> EAN_char_encoding(parity_mapping[i], left_digits[i])])
      right_payload  ==
        join_slices([i \in 1..Len(right_digits) |-> EAN_char_encoding(2, right_digits[i])])
  IN join_slices(<<LEFT_GUARD, number_system_encoding, left_payload, MIDDLE_GUARD,
                   right_payload, RIGHT_GUARD>>)

\* EAN13::encode on the twelve stored digits self.0
EAN13_encode(d) ==
  LET number_system_encoding == EAN_char_encoding(0, d[2])
      left_digits    == SubSeq(d, 3, 7)
      right_digits   == SubSeq(d, 8, Len(d))
      parity_mapping == PARITY[d[1] + 1]
      left_payload   ==
        join_slices([i \in 1..5 |-> EAN_char_encoding(parity_mapping[i], left_digits[i])])
      right_payload  ==
        join_slices([i \in 1..Len(right_digits) |-> EAN_char_encoding(2, right_digits[i])])
      checksum_encoding == EAN_char_encoding(2, EAN13_checksum_digit(d))
  IN join_slices(<<LEFT_GUARD, number_system_encoding, left_payload, MIDDLE_GUARD,
                   right_payload, checksum_encoding, RIGHT_GUARD>>)

\* EAN8::encode on the seven stored digits self.0
EAN8_encode(d) ==
  LET number_system_encoding ==
        join_slices([i \in 1..2 |-> EAN_char_encoding(0, d[i])])
      left_digits   == SubSeq(d, 3, 4)
      right_digits  == SubSeq(d, 5, Len(d))
      left_payload  ==
        join_slices([i \in 1..2 |-> EAN_char_encoding(0, left_digits[i])])
      right_payload ==
        join_slices([i \in 1..Len(right_digits) |-> EAN_char_encoding(2, right_digits[i])])
      checksum_encoding == EAN_char_encoding(2, EAN8_checksum_digit(d))
  IN join_slices(<<LEFT_GUARD, number_system_encoding, left_payload, MIDDLE_GUARD,
                   right_payload, checksum_encoding, RIGHT_GUARD>>)

----------------------------------------------------------------------------
(* The bar patterns of the tables (the second column of CHARS).            *)

\* code93.rs CHARS, the encodings
Code93_ENC ==
  <<
    <<1,0,0,0,1,0,1,0,0>>, <<1,0,1,0,0,1,0,0,0>>, <<1,0,1,0,0,0,1,0,0>>,
    <<1,0,1,0,0,0,0,1,0>>, <<1,0,0,1,0,1,0,0,0>>, <<1,0,0,1,0,0,1,0,0>>,
    <<1,0,0,1,0,0,0,1,0>>, <<1,0,1,0,1,0,0,0,0>>, <<1,0,0,0,1,0,0,1,0>>,
    <<1,0,0,0,0,1,0,1,0>>, <<1,1,0,1,0,1,0,0,0>>, <<1,1,0,1,0,0,1,0,0>>,
    <<1,1,0,1,0,0,0,1,0>>, <<1,1,0,0,1,0,1,0,0>>, <<1,1,0,0,1,0,0,1,0>>,
    <<1,1,0,0,0,1,0,1,0>>, <<1,0,1,1,0,1,0,0,0>>, <<1,0,1,1,0,0,1,0,0>>,
    <<1,0,1,1,0,0,0,1,0>>, <<1,0,0,1,1,0,1,0,0>>, <<1,0,0,0,1,1,0,1,0>>,
    <<1,0,1,0,1,1,0,0,0>>, <<1,0,1,0,0,1,1,0,0>>, <<1,0,1,0,0,0,1,1,0>>,
    <<1,0,0,1,0,1,1,0,0>>, <<1,0,0,0,1,0,1,1,0>>, <<1,1,0,1,1,0,1,0,0>>,
    <<1,1,0,1,1,0,0,1,0>>, <<1,1,0,1,0,1,1,0,0>>, <<1,1,0,1,0,0,1,1,0>>,
    <<1,1,0,0,1,0,1,1,0>>, <<1,1,0,0,1,1,0,1,0>>, <<1,0,1,1,0,1,1,0,0>>,
    <<1,0,1,1,0,0,1,1,0>>, <<1,0,0,1,1,0,1,1,0>>, <<1,0,0,1,1,1,0,1,0>>,
    <<1,0,0,1,0,1,1,1,0>>, <<1,1,1,0,1,0,1,0,0>>, <<1,1,1,0,1,0,0,1,0>>,
    <<1,1,1,0,0,1,0,1,0>>, <<1,0,1,1,0,1,1,1,0>>, <<1,0,1,1,1,0,1,1,0>>,
    <<1,1,0,1,0,1,1,1,0>>, <<1,0,0,1,0,0,1,1,0>>, <<1,1,1,0,1,1,0,1,0>>,
    <<1,1,1,0,1,0,1,1,0>>, <<1,0,0,1,1,0,0,1,0>>
  >>

\* code39.rs CHARS, the encodings
Code39_ENC ==
  <<
    <<1,0,1,0,0,1,1,0,1,1,0,1>>, <<1,1,0,1,0,0,1,0,1,0,1,1>>, <<1,0,1,1,0,0,1,0,1,0,1,1>>,
    <<1,1,0,1,1,0,0,1,0,1,0,1>>, <<1,0,1,0,0,1,1,0,1,0,1,1>>, <<1,1,0,1,0,0,1,1,0,1,0,1>>,
    <<1,0,1,1,0,0,1,1,0,1,0,1>>, <<1,0,1,0,0,1,0,1,1,0,1,1>>, <<1,1,0,1,0,0,1,0,1,1,0,1>>,
    <<1,0,1,1,0,0,1,0,1,1,0,1>>, <<1,1,0,1,0,1,0,0,1,0,1,1>>, <<1,0,1,1,0,1,0,0,1,0,1,1>>,
    <<1,1,0,1,1,0,1,0,0,1,0,1>>, <<1,0,1,0,1,1,0,0,1,0,1,1>>, <<1,1,0,1,0,1,1,0,0,1,0,1>>,
    <<1,0,1,1,0,1,1,0,0,1,0,1>>, <<1,0,1,0,1,0,0,1,1,0,1,1>>, <<1,1,0,1,0,1,0,0,1,1,0,1>>,
    <<1,0,1,1,0,1,0,0,1,1,0,1>>, <<1,0,1,0,1,1,0,0,1,1,0,1>>, <<1,1,0,1,0,1,0,1,0,0,1,1>>,
    <<1,0,1,1,0,1,0,1,0,0,1,1>>, <<1,1,0,1,1,0,1,0,1,0,0,1>>, <<1,0,1,0,1,1,0,1,0,0,1,1>>,
    <<1,1,0,1,0,1,1,0,1,0,0,1>>, <<1,0,1,1,0,1,1,0,1,0,0,1>>, <<1,0,1,0,1,0,1,1,0,0,1,1>>,
    <<1,1,0,1,0,1,0,1,1,0,0,1>>, <<1,0,1,1,0,1,0,1,1,0,0,1>>, <<1,0,1,0,1,1,0,1,1,0,0,1>>,
    <<1,1,0,0,1,0,1,0,1,0,1,1>>, <<1,0,0,1,1,0,1,0,1,0,1,1>>, <<1,1,0,0,1,1,0,1,0,1,0,1>>,
    <<1,0,0,1,0,1,1,0,1,0,1,1>>, <<1,1,0,0,1,0,1,1,0,1,0,1>>, <<1,0,0,1,1,0,1,1,0,1,0,1>>,
    <<1,0,0,1,0,1,0,1,1,0,1,1>>, <<1,1,0,0,1,0,1,0,1,1,0,1>>, <<1,0,0,1,1,0,1,0,1,1,0,1>>,
    <<1,0,0,1,0,0,1,0,0,1,0,1>>, <<1,0,0,1,0,0,1,0,1,0,0,1>>, <<1,0,0,1,0,1,0,0,1,0,0,1>>,
    <<1,0,1,0,0,1,0,0,1,0,0,1>>
  >>

\* code11.rs CHARS, the encodings
Code11_ENC ==
  <<
    <<1,0,1,0,1,1>>, <<1,1,0,1,0,1,1>>, <<1,0,0,1,0,1,1>>,
    <<1,1,0,0,1,0,1>>, <<1,0,1,1,0,1,1>>, <<1,1,0,1,1,0,1>>,
    <<1,0,0,1,1,0,1>>, <<1,0,1,0,0,1,1>>, <<1,1,0,1,0,0,1>>,
    <<1,1,0,1,0,1>>, <<1,0,1,1,0,1>>
  >>

\* code128.rs CHARS, the encodings
Code128_ENC ==
  <<
    <<1,1,0,1,1,0,0,1,1,0,0>>, <<1,1,0,0,1,1,0,1,1,0,0>>, <<1,1,0,0,1,1,0,0,1,1,0>>,
    <<1,0,0,1,0,0,1,1,0,0,0>>, <<1,0,0,1,0,0,0,1,1,0,0>>, <<1,0,0,0,1,0,0,1,1,0,0>>,
    <<1,0,0,1,1,0,0,1,0,0,0>>, <<1,0,0,1,1,0,0,0,1,0,0>>, <<1,0,0,0,1,1,0,0,1,0,0>>,
    <<1,1,0,0,1,0,0,1,0,0,0>>, <<1,1,0,0,1,0,0,0,1,0,0>>, <<1,1,0,0,0,1,0,0,1,0,0>>,
    <<1,0,1,1,0,0,1,1,1,0,0>>, <<1,0,0,1,1,0,1,1,1,0,0>>, <<1,0,0,1,1,0,0,1,1,1,0>>,
    <<1,0,1,1,1,0,0,1,1,0,0>>, <<1,0,0,1,1,1,0,1,1,0,0>>, <<1,0,0,1,1,1,0,0,1,1,0>>,
    <<1,1,0,0,1,1,1,0,0,1,0>>, <<1,1,0,0,1,0,1,1,1,0,0>>, <<1,1,0,0,1,0,0,1,1,1,0>>,
    <<1,1,0,1,1,1,0,0,1,0,0>>, <<1,1,0,0,1,1,1,0,1,0,0>>, <<1,1,1,0,1,1,0,1,1,1,0>>,
    <<1,1,1,0,1,0,0,1,1,0,0>>, <<1,1,1,0,0,1,0,1,1,0,0>>, <<1,1,1,0,0,1,0,0,1,1,0>>,
    <<1,1,1,0,1,1,0,0,1,0,0>>, <<1,1,1,0,0,1,1,0,1,0,0>>, <<1,1,1,0,0,1,1,0,0,1,0>>,
    <<1,1,0,1,1,0,1,1,0,0,0>>, <<1,1,0,1,1,0,0,0,1,1,0>>, <<1,1,0,0,0,1,1,0,1,1,0>>,
    <<1,0,1,0,0,0,1,1,0,0,0>>, <<1,0,0,0,1,0,1,1,0,0,0>>, <<1,0,0,0,1,0,0,0,1,1,0>>,
    <<1,0,1,1,0,0,0,1,0,0,0>>, <<1,0,0,0,1,1,0,1,0,0,0>>, <<1,0,0,0,1,1,0,0,0,1,0>>,
    <<1,1,0,1,0,0,0,1,0,0,0>>, <<1,1,0,0,0,1,0,1,0,0,0>>, <<1,1,0,0,0,1,0,0,0,1,0>>,
    <<1,0,1,1,0,1,1,1,0,0,0>>, <<1,0,1,1,0,0,0,1,1,1,0>>, <<1,0,0,0,1,1,0,1,1,1,0>>,
    <<1,0,1,1,1,0,1,1,0,0,0>>, <<1,0,1,1,1,0,0,0,1,1,0>>, <<1,0,0,0,1,1,1,0,1,1,0>>,
    <<1,1,1,0,1,1,1,0,1,1,0>>, <<1,1,0,1,0,0,0,1,1,1,0>>, <<1,1,0,0,0,1,0,1,1,1,0>>,
    <<1,1,0,1,1,1,0,1,0,0,0>>, <<1,1,0,1,1,1,0,0,0,1,0>>, <<1,1,0,1,1,1,0,1,1,1,0>>,
    <<1,1,1,0,1,0,1,1,0,0,0>>, <<1,1,1,0,1,0,0,0,1,1,0>>, <<1,1,1,0,0,0,1,0,1,1,0>>,
    <<1,1,1,0,1,1,0,1,0,0,0>>, <<1,1,1,0,1,1,0,0,0,1,0>>, <<1,1,1,0,0,0,1,1,0,1,0>>,
    <<1,1,1,0,1,1,1,1,0,1,0>>, <<1,1,0,0,1,0,0,0,0,1,0>>, <<1,1,1,1,0,0,0,1,0,1,0>>,
    <<1,0,1,0,0,1,1,0,0,0,0>>, <<1,0,1,0,0,0,0,1,1,0,0>>, <<1,0,0,1,0,1,1,0,0,0,0>>,
    <<1,0,0,1,0,0,0,0,1,1,0>>, <<1,0,0,0,0,1,0,1,1,0,0>>, <<1,0,0,0,0,1,0,0,1,1,0>>,
    <<1,0,1,1,0,0,1,0,0,0,0>>, <<1,0,1,1,0,0,0,0,1,0,0>>, <<1,0,0,1,1,0,1,0,0,0,0>>,
    <<1,0,0,1,1,0,0,0,0,1,0>>, <<1,0,0,0,0,1,1,0,1,0,0>>, <<1,0,0,0,0,1,1,0,0,1,0>>,
    <<1,1,0,0,0,0,1,0,0,1,0>>, <<1,1,0,0,1,0,1,0,0,0,0>>, <<1,1,1,1,0,1,1,1,0,1,0>>,
    <<1,1,0,0,0,0,1,0,1,0,0>>, <<1,0,0,0,1,1,1,1,0,1,0>>, <<1,0,1,0,0,1,1,1,1,0,0>>,
    <<1,0,0,1,0,1,1,1,1,0,0>>, <<1,0,0,1,0,0,1,1,1,1,0>>, <<1,0,1,1,1,1,0,0,1,0,0>>,
    <<1,0,0,1,1,1,1,0,1,0,0>>, <<1,0,0,1,1,1,1,0,0,1,0>>, <<1,1,1,1,0,1,0,0,1,0,0>>,
    <<1,1,1,1,0,0,1,0,1,0,0>>, <<1,1,1,1,0,0,1,0,0,1,0>>, <<1,1,0,1,1,0,1,1,1,1,0>>,
    <<1,1,0,1,1,1,1,0,1,1,0>>, <<1,1,1,1,0,1,1,0,1,1,0>>, <<1,0,1,0,1,1,1,1,0,0,0>>,
    <<1,0,1,0,0,0,1,1,1,1,0>>, <<1,0,0,0,1,0,1,1,1,1,0>>, <<1,0,1,1,1,1,0,1,0,0,0>>,
    <<1,0,1,1,1,1,0,0,0,1,0>>, <<1,1,1,1,0,1,0,1,0,0,0>>, <<1,1,1,1,0,1,0,0,0,1,0>>,
    <<1,0,1,1,1,0,1,1,1,1,0>>, <<1,0,1,1,1,1,0,1,1,1,0>>, <<1,1,1,0,1,0,1,1,1,1,0>>,
    <<1,1,1,1,0,1,0,1,1,1,0>>, <<1,1,0,1,0,0,0,0,1,0,0>>, <<1,1,0,1,0,0,1,0,0,0,0>>,
    <<1,1,0,1,0,0,1,1,1,0,0>>
  >>

\* codabar::Unit::lookup, a unit being named by its char
Codabar_lookup(u) ==
  CASE u = "0" -> <<1,0,1,0,1,0,0,1,1>>
    [] u = "1" -> <<1,0,1,0,1,1,0,0,1>>
    [] u = "2" -> <<1,0,1,0,0,1,0,1,1>>
    [] u = "3" -> <<1,1,0,0,1,0,1,0,1>>
    [] u = "4" -> <<1,0,1,1,0,1,0,0,1>>
    [] u = "5" -> <<1,1,0,1,0,1,0,0,1>>
    [] u = "6" -> <<1,0,0,1,0,1,0,1,1>>
    [] u = "7" -> <<1,0,0,1,0,1,1,0,1>>
    [] u = "8" -> <<1,0,0,1,1,0,1,0,1>>
    [] u = "9" -> <<1,1,0,1,0,0,1,0,1>>
    [] u = "-" -> <<1,0,1,0,0,1,1,0,1>>
    [] u = "$" -> <<1,0,1,1,0,0,1,0,1>>
    [] u = ":" -> <<1,1,0,1,0,1,1,0,1,1>>
    [] u = "/" -> <<1,1,0,1,1,0,1,0,1,1>>
    [] u = "." -> <<1,1,0,1,1,0,1,1,0,1>>
    [] u = "+" -> <<1,0,1,1,0,0,1,1,0,0,1,1>>
    [] u = "A" -> <<1,0,1,1,0,0,1,0,0,1>>
    [] u = "B" -> <<1,0,1,0,0,1,0,0,1,1>>
    [] u = "C" -> <<1,0,0,1,0,0,1,0,1,1>>
    [] u = "D" -> <<1,0,1,0,0,1,1,0,0,1>>

----------------------------------------------------------------------------
(* Code11 (code11.rs): checksums and encoding.  An operation that can      *)
(* panic yields Ok(v) or Panicked.                                         *)

\* CHARS.iter().position(|t| t.0 == c): the 0-based index of the first row
\* of a table for c, if any
Position(table, c) ==
  LET hits == {i \in 1..Len(table) : table[i] = c} IN
  IF hits = {} THEN None
  ELSE Some((CHOOSE i \in hits : \A j \in hits : i <= j) - 1)

\* faulty variant: the weights count down from the threshold
Weight_counting_down(i, weight_threshold) ==
  weight_threshold - ((i - 1) % weight_threshold)

\* the closure `weight` of checksum_char: 1, 2, .., threshold, 1, 2, ..
Weight(i, weight_threshold) ==
  IF i % weight_threshold = 0 THEN weight_threshold ELSE i % weight_threshold

\* positions.rev().enumerate().fold(0, |acc, (i, pos)| acc + weight(i + 1) * pos)
\* over the table positions of the chars of the data, all of them being in table
WeightedIndex(table, d, weight_threshold) ==
  LET n == Len(d) IN
  SeqSum([i \in 1..n |->
            Weight(i, weight_threshold) * Position(table, d[n + 1 - i])[1]],
         1..n)

Code11_GUARD == <<1, 0, 1, 1, 0, 0, 1>>
Code11_SEPARATOR == <<0>>

\* Code11::char_encoding
Code11_char_encoding(c) ==
  LET p == Position(Code11_CHARS, c) IN
  IF p = None THEN Panicked                      \* panic!("Unknown char")
  ELSE Ok(Code11_ENC[p[1] + 1])

\* Code11::checksum_char: Ok(an Option<char>), or the panic of get_char_pos
Code11_checksum_char(d, weight_threshold) ==
  IF \E i \in 1..Len(d) : Position(Code11_CHARS, d[i]) = None
  THEN Panicked                 \* .expect("Character not found in CHARS mapping")
  ELSE LET index == WeightedIndex(Code11_CHARS, d, weight_threshold)
           at == index % Len(Code11_CHARS)
       IN Ok(IF at < Len(Code11_CHARS) THEN Some(Code11_CHARS[at + 1]) ELSE None)

\* Code11::c_checksum_char
Code11_c_checksum_char(d) == Code11_checksum_char(d, 10)

\* Code11::k_checksum_char
Code11_k_checksum_char(d, c_checksum) ==
  Code11_checksum_char(Append(d, c_checksum), 9)

\* Code11::push_encoding
Code11_push_encoding(into, from) == into \o from \o Code11_SEPARATOR

\* faulty variant: K is appended from 10 chars on
Code11_symbols_k_from_10(d) ==
  LET c == Code11_c_checksum_char(d) IN
  IF ~IsOk(c) \/ c.value = None THEN Panicked
  ELSE IF Len(d) >= 10
  THEN LET k == Code11_k_checksum_char(d, c.value[1]) IN
       IF ~IsOk(k) \/ k.value = None THEN Panicked
       ELSE Ok(d \o <<c.value[1], k.value[1]>>)
  ELSE Ok(Append(d, c.value[1]))

\* the chars whose symbols Code11::payload pushes: the data, C, and K when
\* the data has more than 10 chars; Panicked when a checksum cannot be had
Code11_symbols(d) ==
  LET c == Code11_c_checksum_char(d) IN
  IF ~IsOk(c) \/ c.value = None THEN Panicked   \* .expect("Cannot compute checksum C")
  ELSE IF Len(d) > 10
  THEN LET k == Code11_k_checksum_char(d, c.value[1]) IN
       IF ~IsOk(k) \/ k.value = None THEN Panicked
       ELSE Ok(d \o <<c.value[1], k.value[1]>>)
  ELSE Ok(Append(d, c.value[1]))

\* Code11::payload
Code11_payload(d) ==
  LET syms == Code11_symbols(d) IN
  IF ~IsOk(syms) THEN Panicked
  ELSE IF \E i \in 1..Len(syms.value) : ~IsOk(Code11_char_encoding(syms.value[i]))
  THEN Panicked
  ELSE Ok(join_slices([i \in 1..Len(syms.value) |->
            Code11_push_encoding(<<>>, Code11_char_encoding(syms.value[i]).value)]))

\* Code11::encode
Code11_encode(d) ==
  LET p == Code11_payload(d) IN
  IF ~IsOk(p) THEN Panicked
  ELSE Ok(join_slices(<<Code11_GUARD, Code11_SEPARATOR, p.value, Code11_GUARD>>))

----------------------------------------------------------------------------
(* Code39 (code39.rs): checksum and encoding.                              *)

Code39_GUARD == <<1, 0, 0, 1, 0, 1, 1, 0, 1, 1, 0, 1>>

\* Code39::char_encoding
Code39_char_encoding(c) ==
  LET p == Position(Code39_CHARS, c) IN
  IF p = None THEN Panicked                      \* panic!("Unknown char")
  ELSE Ok(Code39_ENC[p[1] + 1])

\* Code39::checksum_char: Ok(an Option<char>), or the panic of get_char_pos
Code39_checksum_char(d) ==
  IF \E i \in 1..Len(d) : Position(Code39_CHARS, d[i]) = None
  THEN Panicked                 \* .expect("Character not found in CHARS mapping")
  ELSE LET index == SeqSum([i \in 1..Len(d) |-> Position(Code39_CHARS, d[i])[1]],
                           1..Len(d)) % Len(Code39_CHARS)
       IN Ok(IF index < Len(Code39_CHARS) THEN Some(Code39_CHARS[index + 1]) ELSE None)

\* Code39::checksum_encoding
Code39_checksum_encoding(d) ==
  LET c == Code39_checksum_char(d) IN
  IF ~IsOk(c) \/ c.value = None THEN Panicked    \* panic!("Cannot compute checksum")
  ELSE Code39_char_encoding(c.value[1])

\* Code39::push_encoding
Code39_push_encoding(into, from) == into \o from \o <<0>>

\* Code39::payload
Code39_payload(d, checksum) ==
  IF \E i \in 1..Len(d) : ~IsOk(Code39_char_encoding(d[i])) THEN Panicked
  ELSE LET enc == join_slices(<<<<0>>>> \o
                    [i \in 1..Len(d) |->
                       Code39_push_encoding(<<>>, Code39_char_encoding(d[i]).value)])
       IN IF ~checksum THEN Ok(enc)
          ELSE LET ce == Code39_checksum_encoding(d) IN
               IF ~IsOk(ce) THEN Panicked
               ELSE Ok(Code39_push_encoding(enc, ce.value))

\* Code39::encode
Code39_encode(d, checksum) ==
  LET p == Code39_payload(d, checksum) IN
  IF ~IsOk(p) THEN Panicked
  ELSE Ok(join_slices(<<Code39_GUARD, p.value, Code39_GUARD>>))

----------------------------------------------------------------------------
(* Code93 (code93.rs): checksums and encoding.                             *)

Code93_GUARD == <<1, 0, 1, 0, 1, 1, 1, 1, 0>>
Code93_TERMINATOR == <<1>>

\* Code93::char_encoding
Code93_char_encoding(c) ==
  LET p == Position(Code93_CHARS, c) IN
  IF p = None THEN Panicked                      \* panic!("Unknown char")
  ELSE Ok(Code93_ENC[p[1] + 1])

\* faulty variant: the weights do not cycle
Code93_weight_uncycled(len, i, weight_threshold) == len - i

\* the closure `weight` of Code93::checksum_char, i being 0-based:
\* (data.len() - i) % weight_threshold, 0 standing for weight_threshold
Code93_weight(len, i, weight_threshold) ==
  IF (len - i) % weight_threshold = 0 THEN weight_threshold
  ELSE (len - i) % weight_threshold

\* Code93::checksum_char: Ok(an Option<char>), or the panic of get_char_pos
Code93_checksum_char(d, weight_threshold) ==
  IF \E i \in 1..Len(d) : Position(Code93_CHARS, d[i]) = None
  THEN Panicked                 \* .expect("Character not found in CHARS mapping")
  ELSE LET index == SeqSum([i \in 1..Len(d) |->
                              Code93_weight(Len(d), i - 1, weight_threshold)
                                * Position(Code93_CHARS, d[i])[1]],
                           1..Len(d))
           at == index % Len(Code93_CHARS)
       IN Ok(IF at < Len(Code93_CHARS) THEN Some(Code93_CHARS[at + 1]) ELSE None)

\* Code93::c_checksum_char
Code93_c_checksum_char(d) == Code93_checksum_char(d, 20)

\* Code93::k_checksum_char
Code93_k_checksum_char(d, c_checksum) ==
  Code93_checksum_char(Append(d, c_checksum), 15)

\* the chars whose symbols Code93::payload pushes: the data, C, K; Panicked
\* when a checksum cannot be had
Code93_symbols(d) ==
  LET c == Code93_c_checksum_char(d) IN
  IF ~IsOk(c) \/ c.value = None THEN Panicked   \* .expect("Cannot compute checksum C")
  ELSE LET k == Code93_k_checksum_char(d, c.value[1]) IN
       IF ~IsOk(k) \/ k.value = None THEN Panicked
       ELSE Ok(d \o <<c.value[1], k.value[1]>>)

\* Code93::payload
Code93_payload(d) ==
  LET syms == Code93_symbols(d) IN
  IF ~IsOk(syms) THEN Panicked
  ELSE IF \E i \in 1..Len(syms.value) : ~IsOk(Code93_char_encoding(syms.value[i]))
  THEN Panicked
  ELSE Ok(join_slices([i \in 1..Len(syms.value) |->
                         Code93_char_encoding(syms.value[i]).value]))

\* faulty variant: the terminator bar is left out
Code93_encode_unterminated(d) ==
  LET p == Code93_payload(d) IN
  IF ~IsOk(p) THEN Panicked
  ELSE Ok(join_slices(<<Code93_GUARD, p.value, Code93_GUARD>>))

\* Code93::encode
Code93_encode(d) ==
  LET p == Code93_payload(d) IN
  IF ~IsOk(p) THEN Panicked
  ELSE Ok(join_slices(<<Code93_GUARD, p.value, Code93_GUARD, Code93_TERMINATOR>>))

----------------------------------------------------------------------------
(* Codabar (codabar.rs): encoding.                                         *)

\* faulty variant: a 0 follows the last pattern too
Codabar_encode_trailing(d) ==
  Ok(join_slices([i \in 1..Len(d) |-> Codabar_lookup(d[i]) \o <<0>>]))

\* Codabar::encode: each unit's pattern, and a 0 after all but the last one
\* (without units the body of the loop, and its self.0.len() - 1, never runs)
Codabar_encode(d) ==
  IF Len(d) = 0 THEN Ok(<<>>)
  ELSE Ok(join_slices([i \in 1..Len(d) |->
            IF i - 1 < Len(d) - 1 THEN Codabar_lookup(d[i]) \o <<0>>
            ELSE Codabar_lookup(d[i])]))

----------------------------------------------------------------------------
(* EANSUPP (ean_supp.rs): encoding.                                        *)

EANSUPP_LEFT_GUARD == <<1, 0, 1, 1>>

EAN5_PARITY ==
  << <<0,0,1,1,1>>, <<1,0,1,0,0>>, <<1,0,0,1,0>>, <<1,0,0,0,1>>, <<0,1,1,0,0>>,
     <<0,0,1,1,0>>, <<0,0,0,1,1>>, <<0,1,0,1,0>>, <<0,1,0,0,1>>, <<0,0,1,0,1>> >>

EAN2_PARITY ==
  << <<0,0,0,0,0>>, <<0,1,0,0,0>>, <<1,0,0,0,0>>, <<1,1,0,0,0>> >>

\* faulty variant: the values of an i8 that are not negative
IsU8_seven_bits(n) == n >= 0 /\ n < 128

\* the values of a u8
IsU8(n) == n >= 0 /\ n < 256

\* EANSUPP::checksum_digit: evens sums the digits at odd 0-based indices,
\* odds the others; Panicked stands for an overflow of the u8 arithmetic
EANSUPP_checksum_digit(d) ==
  LET evens == SeqSum(d, {i \in 1..Len(d) : (i - 1) % 2 = 1})
      odds  == SeqSum(d, {i \in 1..Len(d) : (i - 1) % 2 # 1})
  IN IF ~IsU8(odds * 3) \/ ~IsU8(evens * 9) \/ ~IsU8((odds * 3) + (evens * 9))
     THEN Panicked
     ELSE Ok(IF ((odds * 3) + (evens * 9)) % 10 = 10 THEN 0
             ELSE ((odds * 3) + (evens * 9)) % 10)

\* faulty variant: the parity of a 2-digit code is picked by its second
\* digit alone
EANSUPP_parity_by_second_digit(v) ==
  IF v.variant = "EAN2"
  THEN IF Len(v.data) < 2 THEN Panicked
       ELSE Ok(EAN2_PARITY[(v.data[2] % 4) + 1])
  ELSE LET check == EANSUPP_checksum_digit(v.data) IN
       IF ~IsOk(check) \/ check.value >= Len(EAN5_PARITY) THEN Panicked
       ELSE Ok(EAN5_PARITY[check.value + 1])

\* EANSUPP::parity: Panicked stands for an index out of bounds
EANSUPP_parity(v) ==
  IF v.variant = "EAN2"
  THEN IF Len(v.data) < 2 THEN Panicked
       ELSE LET modulo == ((v.data[1] * 10) + v.data[2]) % 4 IN
            IF ~IsU8((v.data[1] * 10) + v.data[2]) THEN Panicked
            ELSE Ok(EAN2_PARITY[modulo + 1])
  ELSE LET check == EANSUPP_checksum_digit(v.data) IN
       IF ~IsOk(check) \/ check.value >= Len(EAN5_PARITY) THEN Panicked
       ELSE Ok(EAN5_PARITY[check.value + 1])

\* EANSUPP::payload: the digits zipped with the parity, 0,1 between symbols
EANSUPP_payload(v) ==
  LET par == EANSUPP_parity(v) IN
  IF ~IsOk(par) THEN Panicked
  ELSE LET n == IF Len(v.data) < 5 THEN Len(v.data) ELSE 5 IN
       IF \E i \in 1..n : v.data[i] >= 10 THEN Panicked
       ELSE Ok(join_slices([i \in 1..n |->
                 IF i - 1 > 0
                 THEN <<0, 1>> \o EAN_char_encoding(par.value[i], v.data[i])
                 ELSE EAN_char_encoding(par.value[i], v.data[i])]))

\* EANSUPP::encode
EANSUPP_encode(v) ==
  LET p == EANSUPP_payload(v) IN
  IF ~IsOk(p) THEN Panicked
  ELSE Ok(join_slices(<<EANSUPP_LEFT_GUARD, p.value>>))

----------------------------------------------------------------------------
(* TF (tf.rs): encoding.                                                   *)

WIDTHS ==
  << <<"N","N","W","W","N">>, <<"W","N","N","N","W">>, <<"N","W","N","N","W">>,
     <<"W","W","N","N","N">>, <<"N","N","W","N","W">>, <<"W","N","W","N","N">>,
     <<"N","W","W","N","N">>, <<"N","N","N","W","W">>, <<"W","N","N","W","N">>,
     <<"N","W","N","W","N">> >>

ITF_START == <<1, 0, 1, 0>>
ITF_STOP == <<1, 1, 0, 1>>
STF_START == <<1, 1, 0, 1, 1, 0, 1, 0>>
STF_STOP == <<1, 1, 0, 1, 0, 1, 1, 0>>

\* TF::char_widths
TF_char_widths(d) == WIDTHS[d + 1]

\* faulty variant: the bars are taken from the second digit of the pair and
\* the spaces from the first
TF_interleave_swapped(bars, spaces) ==
  join_slices([k \in 1..10 |->
    LET c == IF k % 2 = 1 THEN WIDTHS[spaces + 1][(k + 1) \div 2]
             ELSE WIDTHS[bars + 1][k \div 2]
        i == k % 2
    IN IF c = "W" THEN <<i, i, i>> ELSE <<i>>])

\* TF::interleave: the widths of bars as runs of 1, those of spaces as runs
\* of 0, alternating
TF_interleave(bars, spaces) ==
  join_slices([k \in 1..10 |->
    LET c == IF k % 2 = 1 THEN WIDTHS[bars + 1][(k + 1) \div 2]
             ELSE WIDTHS[spaces + 1][k \div 2]
        i == k % 2
    IN IF c = "W" THEN <<i, i, i>> ELSE <<i>>])

\* TF::char_encoding
TF_char_encoding(d) ==
  join_slices([k \in 1..5 |->
    IF TF_char_widths(d)[k] = "W" THEN <<1, 1, 1, 0>> ELSE <<1, 0>>])

\* TF::stf_payload
TF_stf_payload(d) ==
  IF \E i \in 1..Len(d) : d[i] >= Len(WIDTHS) THEN Panicked
  ELSE Ok(join_slices([i \in 1..Len(d) |-> TF_char_encoding(d[i])]))

\* TF::itf_payload: the chunks of two digits, c[1] of a chunk of one digit
\* being out of bounds
TF_itf_payload(d) ==
  IF Len(d) % 2 = 1 \/ \E i \in 1..Len(d) : d[i] >= Len(WIDTHS) THEN Panicked
  ELSE Ok(join_slices([k \in 1..(Len(d) \div 2) |->
                         TF_interleave(d[2 * k - 1], d[2 * k])]))

\* TF::encode
TF_encode(v) ==
  IF v.variant = "Standard"
  THEN LET p == TF_stf_payload(v.data) IN
       IF ~IsOk(p) THEN Panicked
       ELSE Ok(join_slices(<<STF_START, p.value, STF_STOP>>))
  ELSE LET p == TF_itf_payload(v.data) IN
       IF ~IsOk(p) THEN Panicked
       ELSE Ok(join_slices(<<ITF_START, p.value, ITF_STOP>>))

----------------------------------------------------------------------------
(* Code128 (code128.rs): checksum and encoding.                            *)

Code128_STOP == <<1, 1, 0, 0, 0, 1, 1, 1, 0, 1, 0>>
Code128_TERM == <<1, 1>>

\* faulty variant: the weights count from the start unit (1, 2, 3, ..)
Code128_checksum_value_one_based(us) ==
  SeqSum([i \in 1..Len(us) |-> us[i].index * i], 1..Len(us)) % 103

\* Code128::checksum_value: the units' indices, weighted max(1, i) at the
\* 0-based place i, modulo 103
Code128_checksum_value(us) ==
  SeqSum([i \in 1..Len(us) |-> us[i].index * (IF i - 1 < 1 THEN 1 ELSE i - 1)],
         1..Len(us)) % 103

\* Code128::unit_encoding: CHARS[c.index()].1
Code128_unit_encoding(u) ==
  IF u.index >= Len(Code128_ENC) THEN Panicked ELSE Ok(Code128_ENC[u.index + 1])

\* Code128::checksum_encoding
Code128_checksum_encoding(us) ==
  Code128_unit_encoding([kind |-> "A", index |-> Code128_checksum_value(us)])

\* Code128::payload
Code128_payload(us) ==
  IF \E i \in 1..Len(us) : ~IsOk(Code128_unit_encoding(us[i])) THEN Panicked
  ELSE Ok(join_slices([i \in 1..Len(us) |-> Code128_unit_encoding(us[i]).value]))

\* faulty variant: the checksum symbol is put after STOP
Code128_encode_checksum_last(us) ==
  LET p == Code128_payload(us)
      c == Code128_checksum_encoding(us)
  IN IF ~IsOk(p) \/ ~IsOk(c) THEN Panicked
     ELSE Ok(join_slices(<<p.value, Code128_STOP, c.value, Code128_TERM>>))

\* Code128::encode
Code128_encode(us) ==
  LET p == Code128_payload(us)
      c == Code128_checksum_encoding(us)
  IN IF ~IsOk(p) \/ ~IsOk(c) THEN Panicked
     ELSE Ok(join_slices(<<p.value, c.value, Code128_STOP, Code128_TERM>>))

\* Code128::new as a whole
Code128_new(d, character_set) ==
  LET s == Code128_start(d, character_set) IN
  IF ~IsOk(s) THEN s
  ELSE LET us == Code128_parse(s.value) IN
       IF IsOk(us) THEN Ok([variant |-> "Code128", data |-> us.value]) ELSE us

----------------------------------------------------------------------------
(* encode() of a constructed value, whatever its symbology.                *)

\* the index and slice expressions of EAN13::encode are in bounds
EAN13_in_bounds(d) ==
  Len(d) >= 7 /\ \A i \in 1..Len(d) : d[i] < 10

\* the index and slice expressions of EAN8::encode are in bounds
EAN8_in_bounds(d) ==
  Len(d) >= 4 /\ \A i \in 1..Len(d) : d[i] < 10

\* encode(&self): Ok(the bits), or Panicked
encode(v) ==
  CASE v.variant = "Codabar" -> Codabar_encode(v.data)
    [] v.variant = "Code11" -> Code11_encode(v.data)
    [] v.variant = "Code39" -> Code39_encode(v.data, v.checksum)
    [] v.variant = "Code93" -> Code93_encode(v.data)
    [] v.variant = "Code128" -> Code128_encode(v.data)
    [] v.variant = "EAN13" ->
         IF EAN13_in_bounds(v.data) THEN Ok(EAN13_encode(v.data)) ELSE Panicked
    [] v.variant = "EAN8" ->
         IF EAN8_in_bounds(v.data) THEN Ok(EAN8_encode(v.data)) ELSE Panicked
    [] v.variant \in {"EAN2", "EAN5"} -> EANSUPP_encode(v)
    [] v.variant \in {"Standard", "Interleaved"} -> TF_encode(v)

----------------------------------------------------------------------------
(* The inputs explored.                                                    *)

Repeat(c, n) == [i \in 1..n |-> c]

\* all texts over the alphabet S of at most n chars
StrUpTo(S, n) == UNION {[1..k -> S] : k \in 0..n}

\* "1" is valid everywhere, "A" in the alphanumeric symbologies only, "a" in
\* none of the single-alphabet ones, and "u00E9" neither, taking two bytes
Sigma == {"1", "A", "a", "u00E9"}

\* the lengths of the run of "1" in the middle of a text: the short ones
\* around the fixed-length symbologies, and those around the end of the
\* variable-length symbologies' valid_len()
FillLens ==
  (0..MaxShort) \cup ((Code93_valid_len.end - 4)..(Code93_valid_len.end + MaxOver))

\* texts first ++ "1"* ++ middle ++ "1"* ++ last, each of first, middle and
\* last being empty or one char of Sigma
Inputs ==
  { f \o Repeat("1", n \div 2) \o m \o Repeat("1", n - (n \div 2)) \o l :
      f \in StrUpTo(Sigma, 1), m \in StrUpTo(Sigma, 1), l \in StrUpTo(Sigma, 1),
      n \in FillLens }

\* the data digits of the EAN-13 / EAN-8 test vectors of the repository
EAN13_BASES ==
  { <<"7", "5", "0", "1", "0", "3", "1", "3", "1", "1", "3", "0">>,
    <<"9", "8", "3", "4", "6", "5", "1", "2", "3", "4", "9", "9">>,
    <<"8", "8", "0", "1", "0", "5", "1", "2", "9", "4", "8", "8">> }
EAN8_BASES ==
  { <<"5", "5", "1", "2", "3", "4", "5">>,
    <<"9", "8", "3", "4", "6", "5", "1">>,
    <<"8", "8", "0", "2", "3", "0", "2">> }

\* a test vector with its last NFree digits replaced by any digits, alone or
\* followed by any one digit as the check digit
InputsEAN ==
  { SubSeq(b, 1, Len(b) - NFree) \o f \o c :
      b \in EAN13_BASES \cup EAN8_BASES,
      f \in [1..NFree -> Range(DIGITS)],
      c \in StrUpTo(Range(DIGITS), 1) }

\* markers, digits, a letter of sets A and B, a letter of set B alone, FNC1;
\* Inputs128 holds the short texts over them and the runs of the digits 0
\* and 9 (the pairs 00, 09, 90 and 99)
Sigma128 == {"u00C0", "u0181", "u0106", "1", "2", "A", "a", "u0179"}
CharacterSets == {"A", "B", "C", "None"}
Inputs128 ==
  StrUpTo(Sigma128, MaxLen128) \cup StrUpTo({"0", "9"}, MaxDigits128)

\* chars for the encoders: digits, "-" (not in the two-of-five and EAN
\* alphabets), "A" and "+" (not in Code11's), the pattern of "+" in Codabar
\* being 12 bits long and that of the digits and "-" 9
SigmaEnc == {"1", "9", "-", "A", "+"}

\* the text of n chars that repeats pat
Cycle(pat, n) == [i \in 1..n |-> pat[((i - 1) % Len(pat)) + 1]]

PatternsEnc ==
  { <<"9", "1", "0", "7">>, <<"1", "-", "9">>, <<"A", "+", "Z", "9", "-">> }

\* the lengths of the patterned texts: up to MaxFill, and the three longest
\* ones a variable-length symbology accepts
FillLensEnc ==
  ((MaxEncLen + 1)..MaxFill) \cup ((Code93_valid_len.end - 2)..Code93_valid_len.end)

\* Code128 texts: an optional letter, an optional switch to set C, a run of
\* digits, and an optional switch back to set A or a letter
Inputs128Enc ==
  { p \o sw \o ds \o e :
      p \in StrUpTo({"A"}, 1), sw \in {<<>>, <<"u0106">>},
      ds \in StrUpTo({"1", "2"}, MaxDigits128),
      e \in StrUpTo({"u00C0", "B"}, 1) }

InputsEncode ==
  StrUpTo(SigmaEnc, MaxEncLen)
    \cup {Cycle(pat, n) : pat \in PatternsEnc, n \in FillLensEnc}
    \cup Inputs128Enc

\* supplemental codes: every text of two digits, alone or followed by three
\* of the digits 0, 5 and 9 (99999 gives the largest sums), and the texts
\* of one digit and of a letter
InputsSupp ==
  { a \o b : a \in [1..2 -> Range(DIGITS)],
             b \in {<<>>} \cup [1..3 -> {"0", "5", "9"}] }
    \cup StrUpTo({"7", "A"}, 2)


----------------------------------------------------------------------------
(* The state machine: a caller holds a text, calls one constructor on it,  *)
(* and may encode the value it got.                                        *)

InitRest ==
  /\ call = [fn |-> "none"]
  /\ pc = "input"
  /\ result = NoResult
  /\ chars = <<>>
  /\ pos = 1
  /\ units = <<>>
  /\ char_set = "None"
  /\ carry = None
  /\ encoded = <<>>

Init == data \in Inputs /\ InitRest
InitEAN == data \in InputsEAN /\ InitRest
InitCode128 == data \in Inputs128 /\ InitRest
InitEncode == data \in InputsEncode /\ InitRest
InitSupp == data \in InputsSupp /\ InitRest

\* a constructor that runs to its end in one step
Construct(fn, r) ==
  /\ pc = "input"
  /\ call' = [fn |-> fn]
  /\ result' = r
  /\ pc' = "done"
  /\ UNCHANGED <<data, chars, pos, units, char_set, carry, encoded>>

Code93New == Construct("Code93::new", Code93_new(data))
CodabarNew == Construct("Codabar::new", Codabar_new(data))
Code11New == Construct("Code11::new", Code11_new(data))
Code39New == Construct("Code39::new", Code39_new(data))
Code39WithChecksum == Construct("Code39::with_checksum", Code39_with_checksum(data))
EAN13New == Construct("EAN13::new", EAN13_new(data))
EAN8New == Construct("EAN8::new", EAN8_new(data))
EANSUPPNew == Construct("EANSUPP::new", EANSUPP_new(data))
TFInterleaved == Construct("TF::interleaved", TF_interleaved(data))
TFStandard == Construct("TF::standard", TF_standard(data))

\* <S as Parse>::parse(data), the validator every constructor above begins with
ParseCall(sy) ==
  /\ pc = "input"
  /\ call' = [fn |-> "Parse::parse", sym |-> sy]
  /\ result' = parse(valid_chars(sy), valid_len(sy), data)
  /\ pc' = "done"
  /\ UNCHANGED <<data, chars, pos, units, char_set, carry, encoded>>

\* Code128::new: the checks before the tokenizer, then the call of parse
Code128New(character_set) ==
  /\ pc = "input"
  /\ call' = [fn |-> "Code128::new", character_set |-> character_set]
  /\ LET s == Code128_start(data, character_set) IN
     IF IsOk(s)
     THEN /\ chars' = s.value
          /\ pos' = 1
          /\ units' = <<>>
          /\ char_set' = "None"
          /\ carry' = None
          /\ pc' = "parse"
          /\ UNCHANGED result
     ELSE /\ result' = s
          /\ pc' = "done"
          /\ UNCHANGED <<chars, pos, units, char_set, carry>>
  /\ UNCHANGED <<data, encoded>>

\* Code128::parse: one iteration of `for ch in chars`
Code128ParseChar ==
  /\ pc = "parse"
  /\ pos <= Len(chars)
  /\ LET r == Code128_parse_char(ParseState(units, char_set, carry), chars[pos]) IN
     IF IsOk(r)
     THEN /\ units' = r.value.units
          /\ char_set' = r.value.char_set
          /\ carry' = r.value.carry
          /\ pos' = pos + 1
          /\ UNCHANGED <<pc, result>>
     ELSE /\ result' = r
          /\ pc' = "done"
          /\ UNCHANGED <<units, char_set, carry, pos>>
  /\ UNCHANGED <<data, call, chars, encoded>>

\* Code128::parse: the end of the loop, and `.map(Code128)` in new
Code128ParseEnd ==
  /\ pc = "parse"
  /\ pos > Len(chars)
  /\ LET r == Code128_parse_end(ParseState(units, char_set, carry)) IN
     result' = IF IsOk(r) THEN Ok([variant |-> "Code128", data |-> r.value]) ELSE r
  /\ pc' = "done"
  /\ UNCHANGED <<data, call, chars, pos, units, char_set, carry, encoded>>

\* EAN13::encode / EAN8::encode on the constructed value
EANEncode ==
  /\ pc = "done"
  /\ IsOk(result)
  /\ result.value.variant \in {"EAN13", "EAN8"}
  /\ encoded' = IF result.value.variant = "EAN13"
                THEN EAN13_encode(result.value.data)
                ELSE EAN8_encode(result.value.data)
  /\ pc' = "encoded"
  /\ UNCHANGED <<data, call, result, chars, pos, units, char_set, carry>>

\* Code128::new, run to its end in one step
Code128NewWhole(character_set) ==
  /\ pc = "input"
  /\ call' = [fn |-> "Code128::new", character_set |-> character_set]
  /\ result' = Code128_new(data, character_set)
  /\ pc' = "done"
  /\ UNCHANGED <<data, chars, pos, units, char_set, carry, encoded>>

\* encode(&self) on the constructed value: the bits, or a panic
Encode ==
  /\ pc = "done"
  /\ IsOk(result)
  /\ LET e == encode(result.value) IN
     IF IsOk(e)
     THEN encoded' = e.value /\ pc' = "encoded"
     ELSE encoded' = <<>> /\ pc' = "encode_panic"
  /\ UNCHANGED <<data, call, result, chars, pos, units, char_set, carry>>

Next ==
  \/ Code93New
  \/ CodabarNew
  \/ Code11New
  \/ Code39New
  \/ Code39WithChecksum
  \/ EAN13New
  \/ EAN8New
  \/ EANSUPPNew
  \/ TFInterleaved
  \/ TFStandard
  \/ \E sy \in SYMBOLOGIES : ParseCall(sy)

NextEAN == EAN13New \/ EAN8New \/ EANEncode

NextCode128 ==
  \/ \E cs \in CharacterSets : Code128New(cs)
  \/ Code128ParseChar
  \/ Code128ParseEnd

NextEncode ==
  \/ Code93New
  \/ CodabarNew
  \/ Code11New
  \/ Code39New
  \/ Code39WithChecksum
  \/ EAN13New
  \/ EAN8New
  \/ EANSUPPNew
  \/ TFInterleaved
  \/ TFStandard
  \/ \E cs \in CharacterSets : Code128NewWhole(cs)
  \/ Encode

NextSupp == EANSUPPNew \/ Encode

Spec == Init /\ [][Next]_vars
SpecEAN == InitEAN /\ [][NextEAN]_vars
SpecCode128 == InitCode128 /\ [][NextCode128]_vars
SpecEncode == InitEncode /\ [][NextEncode]_vars
SpecSupp == InitSupp /\ [][NextSupp]_vars

----------------------------------------------------------------------------
(* Properties.                                                             *)

Done == pc \in {"done", "encoded"}

InRange(sy, d) == str_len(d) >= valid_len(sy).start /\ str_len(d) <= valid_len(sy).end
BadChars(sy, d) == {i \in 1..Len(d) : d[i] \notin Range(valid_chars(sy))}

\* C1: Code93::new hands its validation failures back as values: the empty
\* text gives Err(Length), a text of accepted length with a character outside
\* the 47-symbol alphabet gives Err(Character), and it never panics.
C1_Code93ErrorsAreValues ==
  (Done /\ call.fn = "Code93::new") =>
    /\ result.kind # "Panic"
    /\ (data = <<>> => result = Err("Length"))
    /\ (InRange("Code93", data) /\ BadChars("Code93", data) # {}
          => result = Err("Character"))

\* C2: Parse::parse checks the length (str::len of the text) before the
\* characters: a text whose length is outside valid_len() gives Err(Length)
\* even when it holds characters outside valid_chars(); Err(Character) is
\* given exactly when the length is accepted and some character is not in
\* valid_chars(); every other text is returned unchanged in Ok.
C2_LengthBeforeCharacters ==
  (Done /\ call.fn = "Parse::parse") =>
    /\ (~InRange(call.sym, data) => result = Err("Length"))
    /\ (result = Err("Character")
          <=> InRange(call.sym, data) /\ BadChars(call.sym, data) # {})
    /\ (InRange(call.sym, data) /\ BadChars(call.sym, data) = {}
          => result = Ok(data))

\* a text that is too long for EAN-13 and holds a non-digit: Err(Length)
C2_Witness ==
  /\ Done /\ call.fn = "Parse::parse" /\ call.sym = "EAN13"
  /\ str_len(data) > 13
  /\ BadChars("EAN13", data) # {}
  /\ result = Err("Length")

VarLenConstructors ==
  {"Codabar::new", "Code11::new", "Code39::new", "Code39::with_checksum",
   "TF::standard", "TF::interleaved"}

\* the symbology a constructor validates for
SymbologyOf(fn) ==
  CASE fn = "Codabar::new" -> "Codabar"
    [] fn = "Code11::new" -> "Code11"
    [] fn \in {"Code39::new", "Code39::with_checksum"} -> "Code39"
    [] fn = "Code93::new" -> "Code93"
    [] fn = "EAN13::new" -> "EAN13"
    [] fn = "EAN8::new" -> "EAN8"
    [] fn = "EANSUPP::new" -> "EANSUPP"
    [] fn \in {"TF::standard", "TF::interleaved"} -> "TF"

\* C3: the variable-length constructors (Codabar, Code11, Code39, both
\* two-of-five) accept exactly the lengths 1..255: the empty text and every
\* text of more than 255 chars give Err(Length), and texts of valid
\* characters of length 1 and of length 255 are accepted.
C3_VarLenRangeIs1To255 ==
  (Done /\ call.fn \in VarLenConstructors) =>
    /\ (Len(data) = 0 \/ Len(data) > 255 => result = Err("Length"))
    /\ (Len(data) \in {1, 255} /\ BadChars(SymbologyOf(call.fn), data) = {}
          => IsOk(result))

\* C4: EANSUPP::new gives Err(Length) for every text whose length (counted
\* in chars or in bytes alike) is neither 2 nor 5, non-digits in it or not;
\* two digits give the EAN2 variant and five digits the EAN5 variant.
C4_EANSUPPLengthIs2Or5 ==
  (Done /\ call.fn = "EANSUPP::new") =>
    /\ (Len(data) \notin {2, 5} /\ str_len(data) \notin {2, 5}
          => result = Err("Length"))
    /\ (Len(data) = 2 /\ AllDigits(data)
          => IsOk(result) /\ result.value.variant = "EAN2")
    /\ (Len(data) = 5 /\ AllDigits(data)
          => IsOk(result) /\ result.value.variant = "EAN5")

CharacterCheckedConstructors ==
  {"Codabar::new", "Code11::new", "Code39::new", "Code39::with_checksum",
   "EAN13::new", "EAN8::new", "TF::standard", "TF::interleaved"}

\* C5: for Codabar, Code11, Code39, EAN-13, EAN-8 and both two-of-five
\* constructors, a text of accepted length that holds a character outside
\* the alphabet gives Err(Character), wherever that character stands.
C5_BadCharacterAnywhere ==
  (Done /\ call.fn \in CharacterCheckedConstructors) =>
    (InRange(SymbologyOf(call.fn), data) /\ BadChars(SymbologyOf(call.fn), data) # {}
       => result = Err("Character"))

\* the only offending character stands strictly inside the text
C5_Witness ==
  /\ Done /\ call.fn = "EAN13::new"
  /\ InRange("EAN13", data)
  /\ \E i \in 2..(Len(data) - 1) : BadChars("EAN13", data) = {i}
  /\ result = Err("Character")

\* the digits of a text of decimal digits, weighted w1, w2, w1, w2, ... from
\* the left, sum to a multiple of 10
WeightedSumIsZeroMod10(d, w1, w2) ==
  SeqSum([i \in 1..Len(d) |-> Digits(d)[i] * (IF i % 2 = 1 THEN w1 ELSE w2)],
         1..Len(d)) % 10 = 0

\* C6: a text of 13 (EAN-13) or 8 (EAN-8) digits is accepted exactly when its
\* last digit is the modulo-10 check digit of the digits before it (the digit
\* that brings the sum weighted 1,3,1,3,.. resp. 3,1,3,1,.. to a multiple of
\* 10), and gives Err(Checksum) otherwise; 12 resp. 7 digits are always
\* accepted.
C6_ExplicitCheckDigit ==
  /\ (Done /\ call.fn = "EAN13::new" /\ AllDigits(data)) =>
       /\ (Len(data) = 13 =>
             result = IF WeightedSumIsZeroMod10(data, 1, 3)
                      THEN Ok([variant |-> "EAN13", data |-> SubSeq(Digits(data), 1, 12)])
                      ELSE Err("Checksum"))
       /\ (Len(data) = 12 => IsOk(result))
  /\ (Done /\ call.fn = "EAN8::new" /\ AllDigits(data)) =>
       /\ (Len(data) = 8 =>
             result = IF WeightedSumIsZeroMod10(data, 3, 1)
                      THEN Ok([variant |-> "EAN8", data |-> SubSeq(Digits(data), 1, 7)])
                      ELSE Err("Checksum"))
       /\ (Len(data) = 7 => IsOk(result))

\* thirteen digits, the last one the right check digit: accepted
C6_Witness ==
  /\ Done /\ call.fn = "EAN13::new"
  /\ Len(data) = 13 /\ AllDigits(data)
  /\ IsOk(result)

\* the text of tests::ean13_encode and the bits that test expects
EAN13_VECTOR == <<"7", "5", "0", "1", "0", "3", "1", "3", "1", "1", "3", "0">>
EAN13_VECTOR_BITS ==
  <<1,0,1,0,1,1,0,0,0,1,0,1,0,0,1,1,1,0,0,1,1,0,0,1,0,1,0,0,1,1,1,0,
    1,1,1,1,0,1,0,1,1,0,0,1,1,0,1,0,1,0,1,0,0,0,0,1,0,1,1,0,0,1,1,0,
    1,1,0,0,1,1,0,1,0,0,0,0,1,0,1,1,1,0,0,1,0,1,1,1,0,1,0,0,1,0,1>>

\* the 7 bits just before the right guard of a 95-bit EAN-13 symbol
CheckSymbol(bits) == SubSeq(bits, 86, 92)

MarkerSet(c) == CharacterSet_from_char(c).value

\* C8: Code128::new with CharacterSet::None on a text that begins with a
\* marker succeeds and yields what Code128::new yields for the rest of the
\* text with the character-set the marker names (whenever that call
\* succeeds).
C8_LonghandAccepted ==
  (Done /\ call.fn = "Code128::new" /\ call.character_set = "None"
     /\ Len(data) >= 1 /\ Head(data) \in Code128_MARKERS) =>
    LET explicit == Code128_start(Tail(data), MarkerSet(Head(data))) IN
    (IsOk(explicit) /\ IsOk(Code128_parse(explicit.value))
       => result = Ok([variant |-> "Code128",
                       data |-> Code128_parse(explicit.value).value]))

C10_OrphanDigitIsAnError ==
  [][ (pc = "parse" /\ carry # None
         /\ (pos > Len(chars) \/ chars[pos] \in Code128_MARKERS))
      => (char_set = "C" /\ pc' = "done" /\ result' = Err("Character")) ]_vars

\* the tokenizer, switched to set C in mid-text, refused at a marker that
\* follows an unpaired digit
C10_Witness ==
  /\ pc = "done" /\ call.fn = "Code128::new" /\ call.character_set = "A"
  /\ result = Err("Character")
  /\ carry # None
  /\ pos <= Len(chars) /\ chars[pos] \in Code128_MARKERS

\* a Code128 text that stays in set A up to a switch to set C in mid-text,
\* which a non-empty run of an even number of digits follows to the end:
\* split at k
SwitchesToC(d, k) ==
  /\ k \in 2..Len(d) /\ d[k] = "u0106"
  /\ \A i \in 1..(k - 1) : d[i] \notin Code128_MARKERS
  /\ Len(d) > k /\ (Len(d) - k) % 2 = 0
  /\ \A i \in (k + 1)..Len(d) : is_ascii_digit(d[i])

\* the same text with the switch left out: the digits stay in set A
WithoutSwitch(d, k) == SubSeq(d, 1, k - 1) \o SubSeq(d, k + 1, Len(d))

\* the bits of Code128::new(d, A).encode()
EncodedInA(d) == encode(Code128_new(d, "A").value).value

Last(bits, n) == SubSeq(bits, Len(bits) - n + 1, Len(bits))

\* C12: encode() never panics on a value a constructor returned, whatever
\* the symbology: every unit and checksum index has its table entry and
\* every index and slice is in bounds.
C12_EncodeIsTotal == pc # "encode_panic"

\* TF::interleaved on an odd number of digits, encoded (in pairs)
C12_Witness ==
  /\ pc = "encoded" /\ call.fn = "TF::interleaved"
  /\ Len(data) % 2 = 1 /\ Len(data) > MaxEncLen
  /\ Len(encoded) > 8

\* C14: a Code11 symbol begins with 1011001 and one 0 and ends with 1011001;
\* a Code39 symbol begins and ends with 100101101101; a Code93 symbol begins
\* with 101011110 and ends with 101011110 and the terminator bit 1.
C14_GuardFraming ==
  /\ (pc = "encoded" /\ call.fn = "Code11::new") =>
       /\ SubSeq(encoded, 1, 8) = <<1,0,1,1,0,0,1, 0>>
       /\ Last(encoded, 7) = <<1,0,1,1,0,0,1>>
  /\ (pc = "encoded" /\ call.fn \in {"Code39::new", "Code39::with_checksum"}) =>
       /\ SubSeq(encoded, 1, 12) = <<1,0,0,1,0,1,1,0,1,1,0,1>>
       /\ Last(encoded, 12) = <<1,0,0,1,0,1,1,0,1,1,0,1>>
  /\ (pc = "encoded" /\ call.fn = "Code93::new") =>
       /\ SubSeq(encoded, 1, 9) = <<1,0,1,0,1,1,1,1,0>>
       /\ Last(encoded, 10) = <<1,0,1,0,1,1,1,1,0, 1>>

\* a Code93 symbol of a text longer than one checksum cycle
C14_Witness ==
  /\ pc = "encoded" /\ call.fn = "Code93::new" /\ Len(data) > 20
  /\ Last(encoded, 10) = <<1,0,1,0,1,1,1,1,0, 1>>

\* C15: a Code128 symbol begins with the start pattern of the character-set
\* given to new (row 103 of CHARS for A, 104 for B, 105 for C) and ends with
\* STOP and the bits 1,1; it has 11 bits for each unit (the start unit
\* among them) and for the checksum, and 13 more; the 11 bits before STOP
\* are the pattern of the checksum, the row whose index is the sum of the
\* units' indices, weighted 1, 1, 2, 3, .., modulo 103.
C15_Code128Framing ==
  (pc = "encoded" /\ call.fn = "Code128::new") =>
    LET us == result.value.data
        start == CASE call.character_set = "A" -> 103
                   [] call.character_set = "B" -> 104
                   [] call.character_set = "C" -> 105
        sum == SeqSum([i \in 1..Len(us) |-> us[i].index * (IF i <= 2 THEN 1 ELSE i - 1)],
                      1..Len(us))
    IN /\ call.character_set \in {"A", "B", "C"}
       /\ us[1].index = start
       /\ SubSeq(encoded, 1, 11) = Code128_ENC[start + 1]
       /\ Last(encoded, 13) = <<1,1,0,0,0,1,1,1,0,1,0, 1,1>>
       /\ Len(encoded) = 11 * (Len(us) + 1) + 13
       /\ SubSeq(encoded, Len(encoded) - 23, Len(encoded) - 13)
            = Code128_ENC[(sum % 103) + 1]

\* a symbol that starts in set C, of four units or more
C15_Witness ==
  /\ pc = "encoded" /\ call.fn = "Code128::new" /\ call.character_set = "C"
  /\ Len(result.value.data) >= 4
  /\ SubSeq(encoded, 1, 11) = <<1,1,0,1,0,0,1,1,1,0,0>>

\* the digit that, put after the digits ds, brings their sum weighted w1, w2,
\* w1, .. from the left to a multiple of 10
CheckDigitAfter(ds, w1, w2) ==
  CHOOSE c \in 0..9 :
    SeqSum([i \in 1..(Len(ds) + 1) |->
              Append(ds, c)[i] * (IF i % 2 = 1 THEN w1 ELSE w2)],
           1..(Len(ds) + 1)) % 10 = 0

\* C16: an EAN-13 symbol has 95 bits, with 101 at bits 0..2, 01010 at bits
\* 45..49 and 101 at bits 92..94; an EAN-8 symbol has 67 bits, with the same
\* guards at bits 0..2, 31..35 and 64..66; the 7 bits before the right guard
\* are the right-hand pattern of the check digit of the stored digits, were
\* it given by the caller or not.
C16_EANFraming ==
  /\ (pc = "encoded" /\ call.fn = "EAN13::new") =>
       /\ Len(encoded) = 95
       /\ SubSeq(encoded, 1, 3) = <<1,0,1>>
       /\ SubSeq(encoded, 46, 50) = <<0,1,0,1,0>>
       /\ SubSeq(encoded, 93, 95) = <<1,0,1>>
       /\ SubSeq(encoded, 86, 92)
            = ENCODINGS[3][CheckDigitAfter(result.value.data, 1, 3) + 1]
  /\ (pc = "encoded" /\ call.fn = "EAN8::new") =>
       /\ Len(encoded) = 67
       /\ SubSeq(encoded, 1, 3) = <<1,0,1>>
       /\ SubSeq(encoded, 32, 36) = <<0,1,0,1,0>>
       /\ SubSeq(encoded, 65, 67) = <<1,0,1>>
       /\ SubSeq(encoded, 58, 64)
            = ENCODINGS[3][CheckDigitAfter(result.value.data, 3, 1) + 1]

\* thirteen digits given, the check digit among them, and encoded
C16_Witness ==
  /\ pc = "encoded" /\ call.fn = "EAN13::new" /\ Len(data) = 13
  /\ Len(encoded) = 95
  /\ SubSeq(encoded, 86, 92) = ENCODINGS[3][to_digit(data[13])[1] + 1]

\* the place (1-based) in a Codabar symbol where the pattern of the i-th
\* char of d begins, patterns being one 0 apart
CodabarOffset(d, i) ==
  1 + SeqSum([j \in 1..Len(d) |-> Len(Codabar_lookup(d[j])) + 1], 1..(i - 1))

\* C17: a Codabar symbol is the patterns of the chars, in order, with one 0
\* between two patterns and nothing before the first or after the last one;
\* its length is the sum of the patterns' lengths plus n - 1 for n chars.
C17_CodabarIsJoinedPatterns ==
  (pc = "encoded" /\ call.fn = "Codabar::new") =>
    LET n == Len(data) IN
    /\ Len(encoded) = CodabarOffset(data, n + 1) - 2
    /\ \A i \in 1..n :
         LET pat == Codabar_lookup(data[i])
             at == CodabarOffset(data, i)
         IN /\ SubSeq(encoded, at, at + Len(pat) - 1) = pat
            /\ i < n => encoded[at + Len(pat)] = 0

\* patterns of 9 and of 12 bits side by side
C17_Witness ==
  /\ pc = "encoded" /\ call.fn = "Codabar::new"
  /\ data = <<"1", "+", "9">>
  /\ Len(encoded) = 9 + 1 + 12 + 1 + 9

\* a Code11 symbol of the chars syms: the guard, one 0, each char's pattern
\* with one 0 after it, the guard
Code11Framed(syms) ==
  <<1,0,1,1,0,0,1, 0>>
    \o join_slices([i \in 1..Len(syms) |->
                      Code11_ENC[Position(Code11_CHARS, syms[i])[1] + 1] \o <<0>>])
    \o <<1,0,1,1,0,0,1>>

\* C18: a Code11 symbol holds the data symbols and then one checksum symbol
\* C, and a second one, K, exactly when the text has more than 10 chars (10
\* chars get C alone); one 0 follows every data and checksum symbol.
C18_Code11Checksums ==
  (pc = "encoded" /\ call.fn = "Code11::new") =>
    IF Len(data) > 10
    THEN \E c, k \in Range(Code11_CHARS) : encoded = Code11Framed(data \o <<c, k>>)
    ELSE \E c \in Range(Code11_CHARS) : encoded = Code11Framed(Append(data, c))

\* ten chars: C alone
C18_Witness ==
  /\ pc = "encoded" /\ call.fn = "Code11::new" /\ Len(data) = 10
  /\ \E c \in Range(Code11_CHARS) : encoded = Code11Framed(Append(data, c))

\* the Code93 check char of d: the row of CHARS at the sum, modulo 47, of
\* the chars' rows weighted by their distance from the end (1 for the last
\* char), the weights cycling 1..cycle
Code93Check(d, cycle) ==
  Code93_CHARS[
    (SeqSum([i \in 1..Len(d) |->
               (((Len(d) - i) % cycle) + 1) * Position(Code93_CHARS, d[i])[1]],
            1..Len(d)) % 47) + 1]

\* C19: a Code93 symbol is the guard, the patterns of the data, of C and of
\* K without gaps, the guard and the terminator bit; C is the check char of
\* the data with weights cycling 1..20 and K that of the data and C with
\* weights cycling 1..15; it has 9 * n + 37 bits for n chars.
C19_Code93Checksums ==
  (pc = "encoded" /\ call.fn = "Code93::new") =>
    LET c == Code93Check(data, 20)
        k == Code93Check(Append(data, c), 15)
        syms == data \o <<c, k>>
    IN /\ encoded = <<1,0,1,0,1,1,1,1,0>>
                      \o join_slices([i \in 1..Len(syms) |->
                            Code93_ENC[Position(Code93_CHARS, syms[i])[1] + 1]])
                      \o <<1,0,1,0,1,1,1,1,0, 1>>
       /\ Len(encoded) = 9 * Len(data) + 37

\* a text longer than both cycles
C19_Witness ==
  /\ pc = "encoded" /\ call.fn = "Code93::new" /\ Len(data) > 20
  /\ Len(encoded) = 9 * Len(data) + 37

\* a Code39 symbol of the chars syms: the guard, one 0, each char's pattern
\* with one 0 after it, the guard
Code39Framed(syms) ==
  <<1,0,0,1,0,1,1,0,1,1,0,1, 0>>
    \o join_slices([i \in 1..Len(syms) |->
                      Code39_ENC[Position(Code39_CHARS, syms[i])[1] + 1] \o <<0>>])
    \o <<1,0,0,1,0,1,1,0,1,1,0,1>>

\* C20: Code39::new(d).encode() holds the data symbols alone;
\* Code39::with_checksum(d).encode() is that symbol with one more pattern
\* and its 0 put in before the closing guard, the pattern of the row of
\* CHARS at the sum of the data chars' rows modulo 43.
C20_Code39ChecksumOptIn ==
  /\ (pc = "encoded" /\ call.fn = "Code39::new") =>
       encoded = Code39Framed(data)
  /\ (pc = "encoded" /\ call.fn = "Code39::with_checksum") =>
       LET plain == encode(Code39_new(data).value).value
           row == SeqSum([i \in 1..Len(data) |-> Position(Code39_CHARS, data[i])[1]],
                         1..Len(data)) % 43
       IN encoded = SubSeq(plain, 1, Len(plain) - 12)
                      \o Code39_ENC[row + 1] \o <<0>>
                      \o Last(plain, 12)

\* with_checksum on a text of several chars: 13 bits more than without
C20_Witness ==
  /\ pc = "encoded" /\ call.fn = "Code39::with_checksum" /\ Len(data) >= 3
  /\ Len(encoded) = Len(Code39Framed(data)) + 13

\* the EAN-5 checksum: three times the 1st, 3rd and 5th digit plus nine
\* times the 2nd and 4th, modulo 10
Supp5Check(d) == ((3 * (d[1] + d[3] + d[5])) + (9 * (d[2] + d[4]))) % 10

\* the parity row the claim names for the digits d of a supplemental code
SuppParityRow(d) ==
  IF Len(d) = 2 THEN EAN2_PARITY[(((d[1] * 10) + d[2]) % 4) + 1]
  ELSE EAN5_PARITY[Supp5Check(d) + 1]

\* C21: EANSUPP.encode is LEFT_GUARD (1011) followed by one 7-bit symbol per
\* input digit, consecutive symbols separated by the bits 0,1, with no
\* check-digit symbol (20 bits for EAN2, 47 for EAN5); the symbol of digit i
\* is taken from the odd/even table the parity row names at i, the row being
\* selected by (first*10 + second) mod 4 for EAN2 and by the EAN-5 checksum
\* for EAN5.
C21_SuppLayout ==
  (pc = "encoded" /\ call.fn = "EANSUPP::new") =>
    LET d == result.value.data
        n == Len(d)
        row == SuppParityRow(d)
    IN /\ d = Digits(data)
       /\ n \in {2, 5}
       /\ Len(encoded) = IF n = 2 THEN 20 ELSE 47
       /\ SubSeq(encoded, 1, 4) = <<1, 0, 1, 1>>
       /\ \A i \in 1..n :
            SubSeq(encoded, 9 * i - 4, 9 * i + 2) = ENCODINGS[row[i] + 1][d[i] + 1]
       /\ \A i \in 2..n : SubSeq(encoded, 9 * i - 6, 9 * i - 5) = <<0, 1>>

\* a 2-digit code whose two digits leave different residues modulo 4 than
\* their value does (34: 34 mod 4 = 2, 4 mod 4 = 0), and a 5-digit code
C21_Witness ==
  /\ pc = "encoded" /\ call.fn = "EANSUPP::new"
  /\ \/ data = <<"3", "4">> /\ Len(encoded) = 20
     \/ data = <<"5", "1", "9", "0", "5">> /\ Len(encoded) = 47

\* C22: TF::interleaved always holds an even number of digits: an odd number
\* of input digits is followed by exactly one modulo-10 check digit (the
\* digit that brings the sum weighted 3,1,3,1,.. from the left to a multiple
\* of 10), an even number is stored unchanged; TF::standard stores the input
\* digits unchanged.
C22_InterleavedIsEven ==
  /\ (Done /\ call.fn = "TF::interleaved" /\ IsOk(result)) =>
       LET stored == result.value.data
           ds == Digits(data)
       IN /\ Len(stored) % 2 = 0
          /\ Len(ds) % 2 = 0 => stored = ds
          /\ Len(ds) % 2 = 1 => stored = Append(ds, CheckDigitAfter(ds, 3, 1))
  /\ (Done /\ call.fn = "TF::standard" /\ IsOk(result)) =>
       result.value.data = Digits(data)

\* seven digits, stored as eight
C22_Witness ==
  /\ Done /\ call.fn = "TF::interleaved" /\ IsOk(result)
  /\ data = <<"9", "1", "0", "7", "9", "1", "0">>
  /\ result.value.data = <<9, 1, 0, 7, 9, 1, 0, 7>>

\* an element of two-of-five: three modules when wide, one when narrow
Element(bit, width) == IF width = "W" THEN <<bit, bit, bit>> ELSE <<bit>>

\* the 18 modules of a pair of digits: bar, space, bar, space, .. with the
\* bars as wide as the first digit's pattern says and the spaces as the
\* second's
PairModules(first, second) ==
  LET b == WIDTHS[first + 1]
      s == WIDTHS[second + 1]
  IN Element(1, b[1]) \o Element(0, s[1]) \o Element(1, b[2]) \o Element(0, s[2])
       \o Element(1, b[3]) \o Element(0, s[3]) \o Element(1, b[4])
       \o Element(0, s[4]) \o Element(1, b[5]) \o Element(0, s[5])

\* the 14 modules of a digit of the standard code: a wide bar is 1110 and a
\* narrow one 10
DigitModules(digit) ==
  LET w == WIDTHS[digit + 1]
      Bar(width) == IF width = "W" THEN <<1, 1, 1, 0>> ELSE <<1, 0>>
  IN Bar(w[1]) \o Bar(w[2]) \o Bar(w[3]) \o Bar(w[4]) \o Bar(w[5])

\* C23: the interleaved output is ITF_START (1010), 18 bits per pair of
\* stored digits (bar widths from the first digit, space widths from the
\* second, wide = 3 modules, narrow = 1) and ITF_STOP (1101), 8 + 18*pairs
\* bits in all; the standard output is STF_START, 14 bits per digit (wide
\* bar 1110, narrow bar 10) and STF_STOP, 16 + 14*n bits in all.
C23_TwoOfFiveLayout ==
  /\ (pc = "encoded" /\ call.fn = "TF::interleaved") =>
       LET d == result.value.data
           pairs == Len(d) \div 2
       IN /\ Len(encoded) = 8 + (18 * pairs)
          /\ SubSeq(encoded, 1, 4) = <<1, 0, 1, 0>>
          /\ Last(encoded, 4) = <<1, 1, 0, 1>>
          /\ \A k \in 1..pairs :
               /\ Len(PairModules(d[2 * k - 1], d[2 * k])) = 18
               /\ SubSeq(encoded, 18 * k - 13, 18 * k + 4)
                    = PairModules(d[2 * k - 1], d[2 * k])
  /\ (pc = "encoded" /\ call.fn = "TF::standard") =>
       LET d == result.value.data IN
       /\ Len(encoded) = 16 + (14 * Len(d))
       /\ SubSeq(encoded, 1, 8) = <<1, 1, 0, 1, 1, 0, 1, 0>>
       /\ Last(encoded, 8) = <<1, 1, 0, 1, 0, 1, 1, 0>>
       /\ \A i \in 1..Len(d) :
            /\ Len(DigitModules(d[i])) = 14
            /\ SubSeq(encoded, 14 * i - 5, 14 * i + 8) = DigitModules(d[i])

\* an interleaved code of two pairs whose digits differ within a pair
C23_Witness ==
  /\ pc = "encoded" /\ call.fn = "TF::interleaved"
  /\ result.value.data = <<9, 1, 0, 7>>
  /\ Len(encoded) = 44

\* the weight of the unit at the 0-based position i of a Code128 symbol: 1
\* for the start unit and for the first data unit, i from there on
UnitWeight(i) == IF i = 0 THEN 1 ELSE i

\* the sum of the units' indices, each times its weight
WeightedUnitSum(us) ==
  SeqSum([k \in 1..Len(us) |-> us[k].index * UnitWeight(k - 1)], 1..Len(us))

\* C24: the Code128 checksum value is the weighted sum of the units'
\* indices modulo 103 (start unit and first data unit weighted 1, the unit
\* at position i >= 1 weighted i); it is in 0..102, so the checksum symbol,
\* the 11 bits before STOP, is never one of the three start patterns.
C24_Code128ChecksumValue ==
  (pc = "encoded" /\ call.fn = "Code128::new") =>
    LET us == result.value.data
        v == WeightedUnitSum(us) % 103
        symbol == SubSeq(encoded, Len(encoded) - 23, Len(encoded) - 13)
    IN /\ Code128_checksum_value(us) = v
       /\ v \in 0..102
       /\ symbol = Code128_ENC[v + 1]
       /\ \A start \in 103..105 : symbol # Code128_ENC[start + 1]

\* a symbol of five units or more, where the weights 1, 1, 2, 3, 4 differ
\* from 1, 2, 3, 4, 5, with a checksum other than 0
C24_Witness ==
  /\ pc = "encoded" /\ call.fn = "Code128::new"
  /\ Len(result.value.data) >= 5
  /\ Code128_checksum_value(result.value.data) > 0

\* the Code11 check char of d: the row of CHARS at the sum, modulo 11, of the
\* chars' rows weighted by their distance from the end (1 for the last
\* char, one more for each char to the left), the weights going from wrap
\* back to 1
Code11Check(d, wrap) ==
  Code11_CHARS[
    (SeqSum([i \in 1..Len(d) |->
               (((Len(d) - i) % wrap) + 1) * Position(Code11_CHARS, d[i])[1]],
            1..Len(d)) % 11) + 1]

\* C25: the Code11 checksum C is the table entry at (sum of weight * index)
\* mod 11, the rightmost data unit weighted 1 and the weights growing by one
\* leftwards, wrapping from 10 back to 1; K is computed likewise over the
\* data followed by C, its weights wrapping from 9 back to 1, and is reduced
\* modulo 11 too.
C25_Code11ChecksumWeights ==
  (pc = "encoded" /\ call.fn = "Code11::new") =>
    LET c == Code11Check(data, 10)
        k == Code11Check(Append(data, c), 9)
    IN /\ Code11_c_checksum_char(data) = Ok(Some(c))
       /\ Code11_k_checksum_char(data, c) = Ok(Some(k))
       /\ encoded = IF Len(data) > 10 THEN Code11Framed(data \o <<c, k>>)
                    ELSE Code11Framed(Append(data, c))

\* a text long enough for both cycles of weights to wrap, whose K is the
\* dash, the unit at index 10
C25_Witness ==
  /\ pc = "encoded" /\ call.fn = "Code11::new" /\ Len(data) > 11
  /\ Code11Check(Append(data, Code11Check(data, 10)), 9) = "-"
  /\ encoded = Code11Framed(data \o <<Code11Check(data, 10), "-">>)

\* the text the tokenizer reads is a start marker and then digits alone
DigitsAfterStart(cs) ==
  Len(cs) >= 1 /\ \A i \in 2..Len(cs) : is_ascii_digit(cs[i])

\* C26: while character-set C is active, the first digit read is stashed
\* and emits nothing, and the second combines with it into exactly one unit,
\* of index 10*first + second, and clears the pending slot; so 2k digits
\* after a START-C yield exactly k units, the pairs in their order.
C26_DigitPairsPack ==
  [][ /\ (pc = "parse" /\ pos <= Len(chars) /\ char_set = "C"
            /\ is_ascii_digit(chars[pos])) =>
          IF carry = None
          THEN /\ carry' = Some(chars[pos])
               /\ units' = units
               /\ pc' = "parse"
          ELSE /\ units' = Append(units,
                              [kind |-> "C",
                               index |-> (10 * to_digit(carry[1])[1])
                                           + to_digit(chars[pos])[1]])
               /\ carry' = None
               /\ pc' = "parse"
      /\ (pc = "parse" /\ pos > Len(chars) /\ call.character_set = "C"
            /\ DigitsAfterStart(chars) /\ (Len(chars) - 1) % 2 = 0) =>
          /\ Len(units) = 1 + ((Len(chars) - 1) \div 2)
          /\ \A k \in 1..((Len(chars) - 1) \div 2) :
               units[k + 1].index = (10 * to_digit(chars[2 * k])[1])
                                      + to_digit(chars[2 * k + 1])[1]
          /\ result' = Ok([variant |-> "Code128", data |-> units])
    ]_vars

\* six digits tokenized in set C: a leading zero, and the pairs 09, 90, 99
C26_Witness ==
  /\ pc = "done" /\ call.fn = "Code128::new" /\ call.character_set = "C"
  /\ data = <<"0", "9", "9", "0", "9", "9">>
  /\ IsOk(result)
  /\ Len(result.value.data) = 4
  /\ result.value.data[2].index = 9
  /\ result.value.data[3].index = 90
  /\ result.value.data[4].index = 99

\* the row of CHARS of the unit that switches to a character-set
SwitchIndex(cs) ==
  CASE cs = "C" -> 99
    [] cs = "B" -> 100
    [] cs = "A" -> 101

\* what C27 says of a step that reads a marker after the start unit: one
\* switch unit and the new character-set when the marker names another
\* character-set than the active one, Err(Character) when it names the
\* active one
MarkerStep ==
  IF MarkerSet(chars[pos]) # char_set
  THEN /\ Len(units') = Len(units) + 1
       /\ SubSeq(units', 1, Len(units)) = units
       /\ units'[Len(units')].index = SwitchIndex(MarkerSet(chars[pos]))
       /\ char_set' = MarkerSet(chars[pos])
       /\ pc' = "parse"
  ELSE /\ pc' = "done"
       /\ result' = Err("Character")

UnitText(u) == Code128_CHARS[u.index + 1][CharacterSet_index(u.kind).value + 1]

\* the strings of a sequence, put one after the other
RECURSIVE Concat(_)
Concat(ss) == IF ss = <<>> THEN "" ELSE Head(ss) \o Concat(Tail(ss))

\* C28: the tokenizer emits units in the order of the chars they are built
\* from, and a two-digit unit of character-set C is built from two adjacent
\* digits (the unit of a char that is not a digit, FNC1 say, is never
\* emitted ahead of the pair of a digit pending before it): the strings of
\* the units after the start unit, in their order, spell the text.
C28_UnitsInInputOrder ==
  (pc = "done" /\ call.fn = "Code128::new" /\ IsOk(result)) =>
    Concat([k \in 1..(Len(units) - 1) |-> UnitText(units[k + 1])])
      = Concat(Tail(chars))

\* C29: the length check of Code128::new counts chars: every text of fewer
\* than two chars is rejected with Error::Length, no text of two chars or
\* more is, and the width in bytes of the chars plays no part (one char of
\* two bytes, a marker or FNC1, is treated like one ASCII char).
C29_LengthCountsChars ==
  (pc = "done" /\ call.fn = "Code128::new") =>
    (Len(data) < 2 <=> result = Err("Length"))

\* C30: the supplemental-code arithmetic stays within its 8-bit unsigned
\* type and within its parity tables: for 5 digits odd_sum*3 + even_sum*9
\* is at most 243, its value mod 10 is in 0..9 (never 10) and names one of
\* the 10 rows of EAN5_PARITY; for 2 digits first*10 + second is at most 99
\* and its value mod 4 names one of the 4 rows of EAN2_PARITY; neither
\* checksum_digit nor parity panics.
C30_SuppArithmeticInRange ==
  (Done /\ call.fn = "EANSUPP::new" /\ IsOk(result)) =>
    LET d == result.value.data IN
    IF result.value.variant = "EAN5"
    THEN LET odd_sum == d[1] + d[3] + d[5]
             even_sum == d[2] + d[4]
             total == (odd_sum * 3) + (even_sum * 9)
         IN /\ Len(d) = 5
            /\ odd_sum * 3 < 256 /\ even_sum * 9 < 256
            /\ total <= 243
            /\ total % 10 \in 0..9 /\ total % 10 # 10
            /\ EANSUPP_checksum_digit(d) = Ok(total % 10)
            /\ (total % 10) + 1 \in 1..Len(EAN5_PARITY)
            /\ Len(EAN5_PARITY) = 10
            /\ EANSUPP_parity(result.value) = Ok(EAN5_PARITY[(total % 10) + 1])
    ELSE LET value == (d[1] * 10) + d[2] IN
         /\ Len(d) = 2
         /\ d[1] * 10 < 256 /\ value <= 99
         /\ (value % 4) + 1 \in 1..Len(EAN2_PARITY)
         /\ Len(EAN2_PARITY) = 4
         /\ EANSUPP_parity(result.value) = Ok(EAN2_PARITY[(value % 4) + 1])

\* the five digits with the largest sums, 27*3 + 18*9 = 243, encoded
C30_Witness ==
  /\ pc = "encoded" /\ call.fn = "EANSUPP::new"
  /\ data = <<"9", "9", "9", "9", "9">>
  /\ EANSUPP_checksum_digit(result.value.data) = Ok(3)
  /\ Len(encoded) = 47

====
